---- MODULE Spec2Model ----
(***************************************************************************)
(* State-machine model of the serializer engine of aiohttp_app_template:   *)
(* api/base/serializers (fields.py, validators.py, helpers.py,             *)
(* serializers.py) as it is driven by api/base/views (mixins.py,           *)
(* generics.py).                                                           *)
(*                                                                         *)
(* The serializer class under verification is a ModelSerializer subclass   *)
(* shaped like api/v1/agents/serializers.py RapidAgentModelSerializer:     *)
(*     title = CharField(validators=[MinLengthValidator(TitleMinLen)])     *)
(*     uid   = UniqueUUIDField(model_class=Model, lookup_field='uid')      *)
(*     class Meta: model, fields / exclude, read_only_fields = ('id',)     *)
(* over a model whose describe() lists pk id (IntField) and the data       *)
(* fields title (CharField), enabled (BooleanField), uid (UUIDField).      *)
(***************************************************************************)
EXTENDS Integers, Sequences, FiniteSets, TLC

VARIABLES
    heap,       \* Python objects by identity: Seq of Field / Validator objects
    declared,   \* class attribute _declared_fields: Seq of [k |-> name, v |-> object id]
    meta,       \* class attribute Meta: [model, fields, exclude]
    db,         \* model collaborator's table: Seq of rows, pk = index
    ser,        \* serializer instances: i -> attributes of the object
    co,         \* the coroutine running on each serializer: i -> [pc, locals]
    view,       \* the view handler that owns each serializer: i -> its position
    hist,       \* observations of completed calls: i -> what was called, what came back
    lst,        \* a `many=True` construction and the ListSerializer it yields
    conv,       \* one field object converting one wire value there and back
    orm         \* one ModelSerializer.create / update call and what it asks of the model

vars == <<heap, declared, meta, db, ser, co, view, hist, lst, conv, orm>>

\* the parts of the state the serializer lifecycle leaves alone
others == <<lst, conv, orm>>

\* the value of a part of the state that takes no part in a behaviour
Unused == [pc |-> "unused"]

-----------------------------------------------------------------------------
(* Bounds of the model and constants of the program *)

\* rows the model collaborator's table may hold
MaxRows == 2
\* times entries of the serializers' field registries are replaced or mutated
MaxMutations == 1
\* Field.__init__ default max_length
DefaultMaxLength == 255
\* Field.__init__ default min_length
DefaultMinLength == 0
\* limit_value of the MinLengthValidator declared on `title`
TitleMinLen == 2

-----------------------------------------------------------------------------
(* Python values: [t |-> type tag, n |-> payload]                          *)
(*   none; str of length n; uuidstr = a str that is the canonical text of  *)
(*   UUID number n; int n; bool n (0/1); uuid = uuid.UUID object number n; *)
(*   list = a JSON array (the payload is its length)                       *)
(*   datestr / datetimestr = the ISO text of date / datetime number n;    *)
(*   date / datetime = the datetime.date / datetime.datetime object n;     *)
(*   dict = the decoded JSON object number n (0 is {}); jsonstr = the text  *)
(*   json.dumps gives for dict n; instance = the model instance of pk n    *)

NoneV == [t |-> "none", n |-> 0]
StrV(len) == [t |-> "str", n |-> len]
UuidStrV(k) == [t |-> "uuidstr", n |-> k]
IntV(k) == [t |-> "int", n |-> k]
BoolV(b) == [t |-> "bool", n |-> IF b THEN 1 ELSE 0]
UuidV(k) == [t |-> "uuid", n |-> k]

\* Python truthiness: bool(value)
Truthy(v) ==
    CASE v.t = "none" -> FALSE
      [] v.t = "str" -> v.n > 0
      [] v.t = "int" -> v.n # 0
      [] v.t = "bool" -> v.n # 0
      [] v.t = "dict" -> v.n # 0
      [] OTHER -> TRUE

\* isinstance(value, python_type); bool is a subclass of int
IsInstance(v, python_type) ==
    CASE python_type = "str" -> v.t \in {"str", "uuidstr", "datestr", "datetimestr", "jsonstr"}
      [] python_type = "int" -> v.t \in {"int", "bool"}
      [] python_type = "bool" -> v.t = "bool"
      [] python_type = "uuid" -> v.t = "uuid"
      [] python_type = "date" -> v.t \in {"date", "datetime"}
      [] python_type = "datetime" -> v.t = "datetime"
      [] python_type = "dict" -> v.t = "dict"
      [] python_type = "model" -> v.t = "instance"
      [] OTHER -> FALSE

\* whether len(value) is defined (otherwise TypeError)
HasLen(v) == v.t \in {"str", "uuidstr", "datestr", "datetimestr", "jsonstr"}

\* len(value) of a str; the canonical text of a UUID has 36 characters
PyLen(v) ==
    CASE v.t = "uuidstr" -> 36
      [] v.t = "datestr" -> 10
      [] v.t = "datetimestr" -> 19
      [] v.t = "jsonstr" -> v.n + 2
      [] OTHER -> v.n

-----------------------------------------------------------------------------
(* OrderedDict: Seq of [k |-> key, v |-> value], insertion ordered *)

Keys(od) == {od[j].k : j \in 1..Len(od)}
KeySeq(od) == [j \in 1..Len(od) |-> od[j].k]
Has(od, key) == key \in Keys(od)
Get(od, key) == od[CHOOSE j \in 1..Len(od) : od[j].k = key].v
\* od[key] = value: replaces in place, or appends
Put(od, key, value) ==
    IF Has(od, key)
    THEN [j \in 1..Len(od) |-> IF od[j].k = key THEN [k |-> key, v |-> value] ELSE od[j]]
    ELSE Append(od, [k |-> key, v |-> value])

-----------------------------------------------------------------------------
(* Outcome of a call that may raise *)

Ok(v) == [kind |-> "ok", val |-> v, msg |-> ""]
\* raise ValidationError(message)
VErr(m) == [kind |-> "verr", val |-> NoneV, msg |-> m]
\* any other exception, named by its class
Crash(e) == [kind |-> "crash", val |-> NoneV, msg |-> e]

-----------------------------------------------------------------------------
(* Field and Validator objects on the heap *)

\* Field.__init__: the attributes of a freshly constructed field
Field(cls, name, python_type, read_only, validators) ==
    [cls |-> cls, name |-> name, python_type |-> python_type,
     read_only |-> read_only, write_only |-> FALSE,
     required |-> TRUE, nullable |-> FALSE,
     max_length |-> DefaultMaxLength, min_length |-> DefaultMinLength,
     validators |-> validators, limit_value |-> 0]

\* MinLengthValidator.__init__ / MaxLengthValidator.__init__
Validator(cls, limit_value) ==
    [cls |-> cls, name |-> "", python_type |-> "",
     read_only |-> FALSE, write_only |-> FALSE,
     required |-> FALSE, nullable |-> FALSE,
     max_length |-> 0, min_length |-> 0,
     validators |-> <<>>, limit_value |-> limit_value]

\* a serializer object stored as an entry of a field registry
\* (BaseSerializer.__init__ -> Field.__init__ with the defaults)
NestedSerializer(name) == Field("Serializer", name, "str", FALSE, <<>>)

\* MaxLengthValidator.validate / MinLengthValidator.validate
ValidatorValidate(vd, value) ==
    IF ~HasLen(value) THEN Crash("TypeError")
    ELSE IF vd.cls = "MaxLengthValidator" /\ PyLen(value) > vd.limit_value
         THEN VErr("len is grater than")
    ELSE IF vd.cls = "MinLengthValidator" /\ PyLen(value) < vd.limit_value
         THEN VErr("len is less than")
    ELSE Ok(value)

\* for validator in self.validators: validator.validate(data)
RECURSIVE RunValidators(_, _, _)
RunValidators(h, ids, value) ==
    IF ids = <<>> THEN Ok(value)
    ELSE LET r == ValidatorValidate(h[Head(ids)], value)
         IN IF r.kind = "ok" THEN RunValidators(h, Tail(ids), value) ELSE r

\* the null check and the type check shared by Field.validate and UUIDField.validate
BaseChecks(f, value) ==
    IF value.t = "none" /\ f.required /\ ~f.nullable THEN VErr("Must be not null")
    ELSE IF f.python_type # "" /\ Truthy(value) /\ ~IsInstance(value, f.python_type)
         THEN VErr("Must be a type")
    ELSE Ok(value)

\* Field.validate
FieldValidate(h, f, value) ==
    LET r == BaseChecks(f, value)
    IN IF r.kind # "ok" THEN r ELSE RunValidators(h, f.validators, value)

\* CharField.validate
CharFieldValidate(h, f, value) ==
    LET r == FieldValidate(h, f, value)
        mx == IF f.max_length # 0 /\ Truthy(value)
              THEN ValidatorValidate(Validator("MaxLengthValidator", f.max_length), value)
              ELSE Ok(value)
        mn == IF f.min_length # 0 /\ Truthy(value)
              THEN ValidatorValidate(Validator("MinLengthValidator", f.min_length), value)
              ELSE Ok(value)
    IN IF r.kind # "ok" THEN r
       ELSE IF mx.kind # "ok" THEN mx
       ELSE mn

\* uuid.UUID(data) as UUIDField.to_internal_value calls it: only ValueError is caught
UUIDParse(value) ==
    CASE value.t = "uuidstr" -> Ok(UuidV(value.n))
      [] value.t \in {"str", "datestr", "datetimestr", "jsonstr"} ->
            VErr("is badly formed hexadecimal UUID string")
      [] value.t = "none" -> Crash("TypeError")
      [] OTHER -> Crash("AttributeError")

\* UUIDField.to_internal_value (with UUIDField.validate)
UUIDFieldToInternal(f, value) ==
    LET p == UUIDParse(value)
    IN IF p.kind # "ok" THEN p ELSE BaseChecks(f, p.val)

\* model_class.get(uid=value) finds a row
UidExists(table, value) == \E pk \in 1..Len(table) : table[pk].uid = value

\* UniqueUUIDField.to_internal_value
UniqueUUIDFieldToInternal(f, value, table) ==
    LET r == UUIDFieldToInternal(f, value)
    IN IF r.kind # "ok" THEN r
       ELSE IF UidExists(table, r.val) THEN VErr("is already exist")
       ELSE r

\* field.to_internal_value(primitive_value), by the class of the field object
FieldToInternal(h, fid, value, table) ==
    LET f == h[fid]
    IN CASE f.cls = "CharField" -> CharFieldValidate(h, f, value)
         [] f.cls = "UUIDField" -> UUIDFieldToInternal(f, value)
         [] f.cls = "UniqueUUIDField" -> UniqueUUIDFieldToInternal(f, value, table)
         [] OTHER -> FieldValidate(h, f, value)

-----------------------------------------------------------------------------
(* The model collaborator's schema and the serializer class *)

\* Meta.model.describe(): pk_field first, then data_fields (no relations declared)
ModelInfo ==
    << [name |-> "id", field_type |-> "IntField", nullable |-> FALSE],
       [name |-> "title", field_type |-> "CharField", nullable |-> FALSE],
       [name |-> "enabled", field_type |-> "BooleanField", nullable |-> FALSE],
       [name |-> "uid", field_type |-> "UUIDField", nullable |-> FALSE] >>

\* ModelSerializer.model_field_mapping with each Field subclass's python_type
FieldClassOf(field_type) ==
    CASE field_type = "IntField" -> [cls |-> "IntegerField", python_type |-> "int"]
      [] field_type = "CharField" -> [cls |-> "CharField", python_type |-> "str"]
      [] field_type = "BooleanField" -> [cls |-> "BooleanField", python_type |-> "bool"]
      [] field_type = "UUIDField" -> [cls |-> "UUIDField", python_type |-> "uuid"]

\* ModelSerializer._get_model_fields: the keys of model_field_classes, in order
ModelFieldNames == [j \in 1..Len(ModelInfo) |-> ModelInfo[j].name]

ModelDescriptor(name) == ModelInfo[CHOOSE j \in 1..Len(ModelInfo) : ModelInfo[j].name = name]

\* Meta.read_only_fields
ReadOnlyFields == {"id"}

\* values of Meta.fields / Meta.exclude:
\*   attribute missing (None), the string '__all__', another string, a list or tuple
OptNone == [kind |-> "none", names |-> <<>>]
OptAll == [kind |-> "all", names |-> <<>>]
OptStr == [kind |-> "str", names |-> <<>>]
OptList(names) == [kind |-> "list", names |-> names]

\* bool(option)
OptTruthy(o) == o.kind \in {"all", "str"} \/ (o.kind = "list" /\ o.names # <<>>)

\* isinstance(option, (list, tuple))
OptIsList(o) == o.kind = "list"

\* helpers.check_model_meta: the exception it raises, or "ok"
check_model_meta(m) ==
    IF m.model = "none" THEN "AssertionError"
    ELSE IF m.model = "abstract" THEN "ValueError"
    ELSE IF OptTruthy(m.fields) /\ m.fields.kind # "all" /\ ~OptIsList(m.fields)
         THEN "TypeError"
    ELSE IF OptTruthy(m.exclude) /\ ~OptIsList(m.exclude) THEN "TypeError"
    ELSE IF OptTruthy(m.fields) /\ OptTruthy(m.exclude) THEN "AssertionError"
    ELSE IF m.fields.kind = "none" /\ m.exclude.kind = "none" THEN "AssertionError"
    ELSE "ok"

\* `name in '__all__'`: Python's substring test on the sentinel
InAllSentinel(name) ==
    name \in {"_", "__", "_a", "__a", "a", "al", "all", "l", "ll", "l_", "ll_", "l__"}

\* iterating the string '__all__' yields its characters
AllSentinelChars == <<"_", "_", "a", "l", "l", "_", "_">>

SeqToSet(s) == {s[j] : j \in 1..Len(s)}

\* ModelSerializer._get_field_names: [exc |-> exception or "ok", names |-> field names]
_get_field_names(m, declared_fields) ==
    IF OptTruthy(m.fields)
    THEN \* `field_names and isinstance(field_names, Iterable)`: a str is Iterable too
         LET has(name) == IF m.fields.kind = "list" THEN name \in SeqToSet(m.fields.names)
                          ELSE InAllSentinel(name)
         IN IF \E name \in Keys(declared_fields) : ~has(name)
            THEN [exc |-> "AssertionError", names |-> <<>>]
            ELSE [exc |-> "ok",
                  names |-> IF m.fields.kind = "list" THEN m.fields.names
                            ELSE AllSentinelChars]
    ELSE IF m.exclude.kind = "none" \/ (m.exclude.kind = "list" /\ m.exclude.names = <<>>)
         THEN [exc |-> "ok", names |-> ModelFieldNames]
    ELSE IF m.exclude.kind # "list"
         THEN \* an exclude that is a falsy non-list cannot occur: OptStr is truthy
              [exc |-> "TypeError", names |-> <<>>]
    ELSE IF Has(declared_fields, Head(m.exclude.names))
         THEN [exc |-> "AssertionError", names |-> <<>>]
    ELSE \* `assert field_name in fields`: `fields` is the imported module
         [exc |-> "TypeError", names |-> <<>>]

\* fault: a shallow copy, the Validator objects are shared with the original
DeepCopyValidators_Shared(h, ids) == [heap |-> h, ids |-> ids]

\* copy.deepcopy of a list of Validator objects: [heap, ids]
RECURSIVE DeepCopyValidators(_, _)
DeepCopyValidators(h, ids) ==
    IF ids = <<>> THEN [heap |-> h, ids |-> <<>>]
    ELSE LET h1 == Append(h, h[Head(ids)])
             rest == DeepCopyValidators(h1, Tail(ids))
         IN [heap |-> rest.heap, ids |-> <<Len(h1)>> \o rest.ids]

\* copy.deepcopy of one Field object with its validators: [heap, id]
DeepCopyField(h, fid) ==
    LET vs == DeepCopyValidators(h, h[fid].validators)
        h2 == Append(vs.heap, [h[fid] EXCEPT !.validators = vs.ids])
    IN [heap |-> h2, id |-> Len(h2)]

\* copy.deepcopy(self._declared_fields): [heap, fields]
RECURSIVE DeepCopyFields(_, _)
DeepCopyFields(h, od) ==
    IF od = <<>> THEN [heap |-> h, fields |-> <<>>]
    ELSE LET c == DeepCopyField(h, Head(od).v)
             rest == DeepCopyFields(c.heap, Tail(od))
         IN [heap |-> rest.heap,
             fields |-> <<[k |-> Head(od).k, v |-> c.id]>> \o rest.fields]

\* field_class(**field_kwargs) for a name of the model: the generated Field object
GeneratedField(name) ==
    LET d == ModelDescriptor(name)
        c == FieldClassOf(d.field_type)
    IN [Field(c.cls, name, c.python_type, name \in ReadOnlyFields, <<>>)
            EXCEPT !.nullable = d.nullable]

\* the loop of ModelSerializer.get_fields over field_names: [heap, fields]
RECURSIVE BuildFields(_, _, _, _)
BuildFields(h, names, declared_fields, fields) ==
    IF names = <<>> THEN [heap |-> h, fields |-> fields]
    ELSE LET name == Head(names)
         IN IF Has(declared_fields, name)
            THEN BuildFields(h, Tail(names), declared_fields,
                             Put(fields, name, Get(declared_fields, name)))
            ELSE IF name \in SeqToSet(ModelFieldNames)
            THEN LET h1 == Append(h, GeneratedField(name))
                 IN BuildFields(h1, Tail(names), declared_fields,
                                Put(fields, name, Len(h1)))
            ELSE BuildFields(h, Tail(names), declared_fields, fields)

\* the registry get_fields returns, with the heap after its allocations
Registry(built) == [exc |-> "ok", heap |-> built.heap, fields |-> built.fields]

\* get_fields raises
NoRegistry(h, exc) == [exc |-> exc, heap |-> h, fields |-> <<>>]

\* ModelSerializer.get_fields once the field names are resolved
GetFieldsNamed(h, copy, fn) ==
    IF fn.exc # "ok" THEN NoRegistry(h, fn.exc)
    ELSE Registry(BuildFields(copy.heap, fn.names, copy.fields, <<>>))

\* ModelSerializer.get_fields once the declared fields are copied
GetFieldsCopied(h, copy, m) == GetFieldsNamed(h, copy, _get_field_names(m, copy.fields))

\* ModelSerializer.get_fields under @helpers.check_model_meta:
\* [exc |-> exception or "ok", heap |-> heap after the allocations, fields |-> registry]
get_fields(h, decl, m) ==
    IF check_model_meta(m) # "ok" THEN NoRegistry(h, check_model_meta(m))
    ELSE GetFieldsCopied(h, DeepCopyFields(h, decl), m)

-----------------------------------------------------------------------------
(* Serializer.to_internal_value, one field at a time *)

Names == {"id", "title", "enabled", "uid"}

\* dict.get(name, None) on the input mapping
DictGet(items, name) == IF name \in DOMAIN items THEN items[name] ELSE NoneV

\* fault: the writable fields are walked from the last declared to the first
RECURSIVE Writable_Reversed(_, _)
Writable_Reversed(h, fields) ==
    IF fields = <<>> THEN <<>>
    ELSE Writable_Reversed(h, Tail(fields))
         \o (IF h[Head(fields).v].read_only THEN <<>> ELSE <<Head(fields)>>)

\* Serializer.writable_fields / readable_fields: the registry filtered, in order
RECURSIVE Writable(_, _)
Writable(h, fields) ==
    IF fields = <<>> THEN <<>>
    ELSE (IF h[Head(fields).v].read_only THEN <<>> ELSE <<Head(fields)>>)
         \o Writable(h, Tail(fields))

RECURSIVE Readable(_, _)
Readable(h, fields) ==
    IF fields = <<>> THEN <<>>
    ELSE (IF h[Head(fields).v].write_only THEN <<>> ELSE <<Head(fields)>>)
         \o Readable(h, Tail(fields))

\* `if self.partial and not self.initial_data.get(field_name, None): continue`
SkipField(partial, items, name) == partial /\ ~Truthy(DictGet(items, name))

\* the local variables of to_internal_value before the loop
NoAcc == [errors |-> <<>>, validated |-> <<>>, exc |-> ""]

\* fault: only the first failure is kept, as if the loop stopped at it
RecordError_FirstOnly(acc, name, msg) ==
    IF acc.errors # <<>> THEN acc ELSE [acc EXCEPT !.errors = Put(acc.errors, name, msg)]

\* errors[field_name] = e.message
RecordError(acc, name, msg) == [acc EXCEPT !.errors = Put(acc.errors, name, msg)]

\* one pass of the loop body of Serializer.to_internal_value for the entry
\* (field_name, field); acc.exc names an exception that leaves the loop
FieldStep(h, entry, items, partial, table, acc) ==
    IF SkipField(partial, items, entry.k) THEN acc
    ELSE IF entry.k \notin DOMAIN items THEN [acc EXCEPT !.exc = "KeyError"]
    ELSE IF h[entry.v].cls = "Serializer"
         THEN \* `field(data=primitive_value)` calls a serializer instance
              [acc EXCEPT !.exc = "TypeError"]
    ELSE LET r == FieldToInternal(h, entry.v, items[entry.k], table)
         IN CASE r.kind = "ok" ->
                    [acc EXCEPT !.validated = Put(acc.validated, entry.k, r.val)]
              [] r.kind = "verr" -> RecordError(acc, entry.k, r.msg)
              [] OTHER -> [acc EXCEPT !.exc = r.msg]

\* the whole loop, run without suspension; tableOf[name] is the table the
\* field `name` finds when it asks the model collaborator
RECURSIVE ToInternalValue(_, _, _, _, _, _)
ToInternalValue(h, todo, items, partial, tableOf, acc) ==
    IF todo = <<>> \/ acc.exc # "" THEN acc
    ELSE ToInternalValue(h, Tail(todo), items, partial, tableOf,
                         FieldStep(h, Head(todo), items, partial, tableOf[Head(todo).k], acc))

-----------------------------------------------------------------------------
(* Representation *)

\* field.to_representation(attr), by the class of the field object
FieldToRepresentation(f, attr) ==
    CASE f.cls \in {"CharField"} ->
            \* str(attr)
            (CASE attr.t \in {"str", "uuidstr", "datestr", "datetimestr", "jsonstr"} -> Ok(attr)
               [] attr.t = "uuid" -> Ok(UuidStrV(attr.n))
               [] attr.t = "none" -> Ok(StrV(4))
               [] attr.t = "bool" -> Ok(StrV(IF attr.n = 1 THEN 4 ELSE 5))
               [] OTHER -> Ok(StrV(1)))
      [] f.cls = "IntegerField" ->
            \* int(attr)
            (CASE attr.t \in {"int", "bool"} -> Ok(IntV(attr.n))
               [] attr.t = "str" -> Crash("ValueError")
               [] attr.t \in {"uuidstr", "datestr", "datetimestr", "jsonstr"} -> Crash("ValueError")
               [] OTHER -> Crash("TypeError"))
      [] f.cls = "BooleanField" -> Ok(BoolV(Truthy(attr)))
      [] f.cls \in {"UUIDField", "UniqueUUIDField"} ->
            \* str(attr)
            (CASE attr.t = "uuid" -> Ok(UuidStrV(attr.n))
               [] attr.t \in {"str", "uuidstr", "datestr", "datetimestr", "jsonstr"} -> Ok(attr)
               [] attr.t = "none" -> Ok(StrV(4))
               [] attr.t = "bool" -> Ok(StrV(IF attr.n = 1 THEN 4 ELSE 5))
               [] OTHER -> Ok(StrV(1)))
      [] f.cls = "Serializer" ->
            \* Serializer.to_representation(attr): getattr(attr, field_name)
            Crash("AttributeError")
      [] OTHER -> Crash("NotImplementedError")

\* getattr(instance, field_name) on a row of the table
RowAttr(table, pk, name) == IF name = "id" THEN IntV(pk) ELSE table[pk][name]

\* Serializer.to_representation(instance) for a model instance:
\* [exc |-> exception or "", rep |-> OrderedDict]
RECURSIVE RepresentInstance(_, _, _, _, _)
RepresentInstance(h, todo, table, pk, ret) ==
    IF todo = <<>> THEN [exc |-> "", rep |-> ret]
    ELSE LET r == FieldToRepresentation(h[Head(todo).v], RowAttr(table, pk, Head(todo).k))
         IN IF r.kind # "ok" THEN [exc |-> r.msg, rep |-> <<>>]
            ELSE RepresentInstance(h, Tail(todo), table, pk, Put(ret, Head(todo).k, r.val))

\* Serializer.to_representation(validated_data): getattr on an OrderedDict fails
\* on the first readable field
RepresentMapping(h, todo) ==
    IF todo = <<>> THEN [exc |-> "", rep |-> <<>>]
    ELSE [exc |-> "AttributeError", rep |-> <<>>]

\* Serializer.get_initial
RECURSIVE InitialOf(_, _, _, _)
InitialOf(h, fields, data, has_data) ==
    IF fields = <<>> THEN <<>>
    ELSE LET name == Head(fields).k
             keep == IF has_data
                     THEN ~Truthy(DictGet(data.items, name)) /\ ~h[Head(fields).v].read_only
                     ELSE ~h[Head(fields).v].read_only
         IN (IF keep
             THEN <<[k |-> name, v |-> IF has_data THEN DictGet(data.items, name) ELSE NoneV]>>
             ELSE <<>>) \o InitialOf(h, Tail(fields), data, has_data)

get_initial(h, fields, data, has_data) ==
    IF has_data /\ ~data.isdict THEN <<>> ELSE InitialOf(h, fields, data, has_data)

-----------------------------------------------------------------------------
(* Serializer objects and the calls made on them *)

\* BaseSerializer.__init__(instance=None, data=None, partial=False)
NewSerializer(instance, has_data, data, partial) ==
    [instance |-> instance,
     has_initial_data |-> has_data, initial_data |-> data,
     partial |-> partial,
     has_validated_data |-> FALSE, validated_data |-> <<>>,
     has_errors |-> FALSE, errors |-> <<>>,
     has_data |-> FALSE, data |-> [src |-> "", rep |-> <<>>],
     has_fields |-> FALSE, fields |-> <<>>,
     mutations |-> 0]

\* no coroutine is running on the serializer
Idle == [pc |-> "idle", todo |-> <<>>, acc |-> NoAcc, raise_error |-> FALSE]

\* nothing has been called yet
NoHist ==
    [op |-> "", res |-> "", last_valid |-> "never", ever_valid |-> FALSE, calls |-> 0,
     hooks |-> <<>>, bound_at_call |-> 0, hook_ret |-> "", ret |-> 0,
     returned |-> <<>>, errors |-> <<>>, obs |-> <<>>]

\* Serializer.fields: the registry, built by get_fields() on first use and cached
FieldsOf(s) ==
    IF s.has_fields THEN [exc |-> "ok", heap |-> heap, fields |-> s.fields]
    ELSE get_fields(heap, declared, meta)

WithFields(s, gf) == [s EXCEPT !.has_fields = TRUE, !.fields = gf.fields]

\* BaseSerializer.errors: `self._errors if hasattr(self, '_errors') else None`, as a truth value
ErrorsTruthy(s) == s.has_errors /\ s.errors # <<>>

\* the end of Serializer.to_internal_value: `if errors: setattr(self, '_errors', errors)`
StoreErrors(s, acc) ==
    IF acc.errors # <<>> THEN [s EXCEPT !.has_errors = TRUE, !.errors = acc.errors] ELSE s

\* BaseSerializer.is_valid after to_internal_value has returned acc.validated:
\* [ser |-> the serializer afterwards, res |-> what the call does]
FinishIsValid(s, acc, raise_error) ==
    LET s1 == StoreErrors(s, acc)
    IN IF ErrorsTruthy(s1)
       THEN [ser |-> s1, res |-> IF raise_error THEN "ValidationError" ELSE "False",
             valid |-> "False"]
       ELSE [ser |-> [s1 EXCEPT !.has_validated_data = TRUE,
                                !.validated_data = acc.validated],
             res |-> "True", valid |-> "True"]

\* capped count of is_valid() calls on one serializer: 0, 1, 2 = more than one
Bump(n) == IF n < 2 THEN n + 1 ELSE n

\* hist[i] when a call of `op` begins: what is kept from the earlier calls
Began(i, op) ==
    [NoHist EXCEPT !.op = op, !.last_valid = hist[i].last_valid,
                   !.ever_valid = hist[i].ever_valid, !.calls = hist[i].calls]

\* is_valid() raises before or while the registry is built
IsValidRaises(i, exc) ==
    /\ hist' = [hist EXCEPT ![i] =
                  [Began(i, "is_valid") EXCEPT !.calls = Bump(@), !.res = exc,
                                               !.last_valid = "raised"]]
    /\ UNCHANGED <<heap, ser, co>>

\* is_valid() with no writable field: to_internal_value returns at once
IsValidAtOnce(i, fin) ==
    /\ ser' = [ser EXCEPT ![i] = fin.ser]
    /\ hist' = [hist EXCEPT ![i] =
                  [Began(i, "is_valid") EXCEPT !.calls = Bump(@), !.res = fin.res,
                                               !.last_valid = fin.valid,
                                               !.ever_valid = @ \/ fin.valid = "True"]]
    /\ UNCHANGED co

\* is_valid() reaches the loop of to_internal_value over the writable fields
IsValidLoop(i, raise_error, s, h, todo) ==
    /\ heap' = h
    /\ IF todo = <<>>
       THEN IsValidAtOnce(i, FinishIsValid(s, NoAcc, raise_error))
       ELSE /\ ser' = [ser EXCEPT ![i] = s]
            /\ co' = [co EXCEPT ![i] =
                        [pc |-> "to_internal_value", todo |-> todo,
                         acc |-> NoAcc, raise_error |-> raise_error]]
            /\ hist' = [hist EXCEPT ![i] =
                          [Began(i, "is_valid") EXCEPT !.calls = Bump(@), !.res = "pending",
                                                       !.last_valid = "running"]]

\* is_valid() on the serializer s whose registry is gf
IsValidOn(i, raise_error, s, gf) ==
    IF ~s.has_initial_data THEN IsValidRaises(i, "AttributeError")
    ELSE IF ~s.initial_data.isdict THEN IsValidRaises(i, "ValidationError")
    ELSE IF gf.exc # "ok" THEN IsValidRaises(i, gf.exc)
    ELSE IsValidLoop(i, raise_error, WithFields(s, gf), gf.heap, Writable(gf.heap, gf.fields))

\* is_valid() is called: runs to the first await of a field's to_internal_value
is_valid_call(i, raise_error) ==
    /\ co[i].pc = "idle"
    /\ IsValidOn(i, raise_error, ser[i], FieldsOf(ser[i]))
    /\ UNCHANGED <<declared, meta, db>>

\* the field entry asks the model collaborator (and is not skipped)
Asks(s, entry) ==
    heap[entry.v].cls = "UniqueUUIDField"
    /\ ~SkipField(s.partial, s.initial_data.items, entry.k)

\* hist[i] after the step on entry: the table a lookup has seen is noted
Seen(i, s, entry) == IF Asks(s, entry) THEN [hist[i] EXCEPT !.obs = db] ELSE hist[i]

\* to_internal_value has returned and is_valid ends as fin says
StepFinishes(i, h0, acc, fin) ==
    /\ co' = [co EXCEPT ![i] = Idle]
    /\ ser' = [ser EXCEPT ![i] = fin.ser]
    /\ hist' = [hist EXCEPT ![i] =
                  [h0 EXCEPT !.res = fin.res, !.last_valid = fin.valid,
                             !.ever_valid = @ \/ fin.valid = "True",
                             !.returned = acc.validated, !.errors = acc.errors]]

\* the loop body has run for Head(c.todo) and left the accumulators acc
StepOn(i, s, c, h0, acc) ==
    IF acc.exc # ""
    THEN /\ co' = [co EXCEPT ![i] = Idle]
         /\ hist' = [hist EXCEPT ![i] = [h0 EXCEPT !.res = acc.exc, !.last_valid = "raised"]]
         /\ UNCHANGED ser
    ELSE IF Tail(c.todo) # <<>>
    THEN /\ co' = [co EXCEPT ![i] = [c EXCEPT !.todo = Tail(c.todo), !.acc = acc]]
         /\ hist' = [hist EXCEPT ![i] = h0]
         /\ UNCHANGED ser
    ELSE StepFinishes(i, h0, acc, FinishIsValid(s, acc, c.raise_error))

\* fault: the accumulators live on the class, one pair for every request
Accumulators_Shared(i) == co[1].acc

\* `errors` and `validated`, the local variables of the running to_internal_value
Accumulators(i) == co[i].acc

\* the awaited field.to_internal_value returns or raises; the loop goes on to the
\* next await, or to_internal_value and is_valid finish
to_internal_value_step(i) ==
    /\ co[i].pc = "to_internal_value"
    /\ StepOn(i, ser[i], co[i], Seen(i, ser[i], Head(co[i].todo)),
              FieldStep(heap, Head(co[i].todo), ser[i].initial_data.items,
                        ser[i].partial, db, Accumulators(i)))
    /\ UNCHANGED <<heap, declared, meta, db>>

\* fault: save() does not require validated data
SavePrecondition_ErrorsOnly(s) == ~s.has_errors

\* the three assertions that open BaseSerializer.save
SavePrecondition(s) ==
    /\ s.has_validated_data
    /\ ~s.has_errors
    /\ ~ErrorsTruthy(s)

\* fault: save() always creates
HooksFor_CreateOnly(s) == <<"create">>

\* the hook BaseSerializer.save awaits
HooksFor(s) == IF s.instance # 0 THEN <<"update">> ELSE <<"create">>

\* save() is called: the assertions, then the await of the hook
save_call(i) ==
    /\ co[i].pc = "idle"
    /\ LET s == ser[i]
           h0 == [Began(i, "save") EXCEPT !.bound_at_call = s.instance]
       IN IF ~SavePrecondition(s)
          THEN /\ hist' = [hist EXCEPT ![i] =
                             [h0 EXCEPT !.res = "AssertionError", !.hooks = <<>>]]
               /\ UNCHANGED co
          ELSE /\ hist' = [hist EXCEPT ![i] =
                             [h0 EXCEPT !.res = "pending", !.hooks = HooksFor(s)]]
               /\ co' = [co EXCEPT ![i] = [Idle EXCEPT !.pc = "hook"]]
    /\ UNCHANGED <<heap, declared, meta, db, ser>>

\* the attributes a row gets from **validated_data
RowValue(od, name) == IF Has(od, name) THEN Get(od, name) ELSE NoneV

\* model_class.create(**validated_data)
CreatedRow(od) ==
    [title |-> RowValue(od, "title"), enabled |-> RowValue(od, "enabled"),
     uid |-> RowValue(od, "uid")]

\* ModelSerializer.update: setattr(instance, field_name, value) for each item
UpdatedRow(row, od) ==
    [title |-> IF Has(od, "title") THEN Get(od, "title") ELSE row.title,
     enabled |-> IF Has(od, "enabled") THEN Get(od, "enabled") ELSE row.enabled,
     uid |-> IF Has(od, "uid") THEN Get(od, "uid") ELSE row.uid]

\* the table's unique index on uid accepts the row at pk (0 = a new row)
UniqueOk(table, pk, row) ==
    row.uid.t = "none" \/ \A q \in 1..Len(table) : q = pk \/ table[q].uid # row.uid

\* the tail of BaseSerializer.save once the hook has come back with `returned`
\* (0 = None): the instance is bound before it is asserted non-null
BindInstance(s, returned) == [s EXCEPT !.instance = returned]

\* the awaited create()/update() hook comes back: with an instance, with None, or raising
save_return(i) ==
    /\ co[i].pc = "hook"
    /\ LET s == ser[i]
           hook == Head(hist[i].hooks)
       IN \/ \* ModelSerializer.create returns the created instance
             /\ hook = "create"
             /\ Len(db) < MaxRows
             /\ UniqueOk(db, 0, CreatedRow(s.validated_data))
             /\ db' = Append(db, CreatedRow(s.validated_data))
             /\ ser' = [ser EXCEPT ![i] = BindInstance(s, Len(db) + 1)]
             /\ hist' = [hist EXCEPT ![i] =
                           [@ EXCEPT !.res = "ok", !.hook_ret = "instance",
                                     !.ret = Len(db) + 1]]
          \/ \* ModelSerializer.update saves and returns the bound instance
             /\ hook = "update"
             /\ UniqueOk(db, s.instance, UpdatedRow(db[s.instance], s.validated_data))
             /\ db' = [db EXCEPT ![s.instance] = UpdatedRow(@, s.validated_data)]
             /\ ser' = [ser EXCEPT ![i] = BindInstance(s, s.instance)]
             /\ hist' = [hist EXCEPT ![i] =
                           [@ EXCEPT !.res = "ok", !.hook_ret = "instance",
                                     !.ret = s.instance]]
          \/ \* the hook returns None
             /\ ser' = [ser EXCEPT ![i] = BindInstance(s, 0)]
             /\ hist' = [hist EXCEPT ![i] =
                           [@ EXCEPT !.res = "AssertionError", !.hook_ret = "null"]]
             /\ UNCHANGED db
          \/ \* the hook raises (NotImplementedError, TypeError, a storage error)
             /\ hist' = [hist EXCEPT ![i] =
                           [@ EXCEPT !.res = "HookError", !.hook_ret = "raise"]]
             /\ UNCHANGED <<db, ser>>
    /\ co' = [co EXCEPT ![i] = Idle]
    /\ UNCHANGED <<heap, declared, meta>>

\* fault: data is computed whatever was called before
DataRefused_Never(s) == FALSE

\* the guard that opens BaseSerializer.data
DataRefused(s) == s.has_initial_data /\ ~s.has_validated_data

\* which branch of BaseSerializer.data computes the representation
DataSource(s) ==
    IF s.instance # 0 /\ ~ErrorsTruthy(s) THEN "instance"
    ELSE IF s.has_validated_data /\ ~ErrorsTruthy(s) THEN "validated_data"
    ELSE "initial"

\* the representation BaseSerializer.data computes from the branch src
Represent(s, h, fields, src) ==
    CASE src = "instance" ->
            RepresentInstance(h, Readable(h, fields), db, s.instance, <<>>)
      [] src = "validated_data" -> RepresentMapping(h, Readable(h, fields))
      [] OTHER ->
            [exc |-> "",
             rep |-> get_initial(h, fields, s.initial_data, s.has_initial_data)]

\* the call ends with res; nothing of the serializer changes
DataEnds(i, res) ==
    /\ hist' = [hist EXCEPT ![i] = [Began(i, "data") EXCEPT !.res = res]]
    /\ UNCHANGED <<heap, ser>>

\* the representation r was computed from src over the registry gf
DataComputed(i, s, gf, src, r) ==
    /\ heap' = gf.heap
    /\ IF r.exc # ""
       THEN /\ hist' = [hist EXCEPT ![i] = [Began(i, "data") EXCEPT !.res = r.exc]]
            /\ ser' = [ser EXCEPT ![i] = s]
       ELSE /\ hist' = [hist EXCEPT ![i] = [Began(i, "data") EXCEPT !.res = "ok"]]
            /\ ser' = [ser EXCEPT ![i] =
                         [s EXCEPT !.has_data = TRUE, !.data = [src |-> src, rep |-> r.rep]]]

\* BaseSerializer.data on the serializer s whose registry is gf
DataOn(i, s, gf, src) ==
    IF DataRefused(s) THEN DataEnds(i, "AssertionError")
    ELSE IF s.has_data THEN DataEnds(i, "ok")
    ELSE IF gf.exc # "ok" THEN DataEnds(i, gf.exc)
    ELSE DataComputed(i, WithFields(s, gf), gf, src, Represent(s, gf.heap, gf.fields, src))

\* the `data` property is awaited
data(i) ==
    /\ co[i].pc = "idle"
    /\ DataOn(i, ser[i], FieldsOf(ser[i]), DataSource(ser[i]))
    /\ UNCHANGED <<declared, meta, db, co>>

\* replacements and in-place assignments made so far, over the serializers in S
RECURSIVE Mutations(_)
Mutations(S) ==
    IF S = {} THEN 0
    ELSE LET j == CHOOSE j \in S : TRUE IN ser[j].mutations + Mutations(S \ {j})

\* the entry `name` of the registry gf is replaced by a new object
ReplaceOn(i, s, gf, h1, name) ==
    /\ gf.exc = "ok"
    /\ heap' = h1
    /\ ser' = [ser EXCEPT ![i] =
                 [s EXCEPT !.fields = Put(gf.fields, name, Len(h1)), !.mutations = @ + 1]]
    /\ hist' = [hist EXCEPT ![i] = Began(i, "fields")]

\* `self.fields[name] = SomeSerializer()`: an entry of the instance's registry is
\* replaced by a new serializer object
replace_field(i) ==
    /\ co[i].pc = "idle"
    /\ Mutations(DOMAIN ser) < MaxMutations
    /\ ReplaceOn(i, WithFields(ser[i], FieldsOf(ser[i])), FieldsOf(ser[i]),
                 Append(FieldsOf(ser[i]).heap, NestedSerializer("title")), "title")
    /\ UNCHANGED <<declared, meta, db, co>>

\* an attribute of an object held by the registry gf is assigned in place
MutateOn(i, s, gf, h) ==
    /\ gf.exc = "ok"
    /\ \E e \in SeqToSet(gf.fields) :
         \/ /\ h[e.v].validators # <<>>
            /\ heap' = [h EXCEPT ![Head(h[e.v].validators)].limit_value = @ + 1]
         \/ /\ h[e.v].validators = <<>>
            /\ ~h[e.v].read_only
            /\ heap' = [h EXCEPT ![e.v].required = FALSE]
    /\ ser' = [ser EXCEPT ![i] = [s EXCEPT !.mutations = @ + 1]]
    /\ hist' = [hist EXCEPT ![i] = Began(i, "fields")]

\* attributes of the objects an instance's registry holds are assigned in place:
\* field.required = False, or validator.limit_value raised by one
mutate_field(i) ==
    /\ co[i].pc = "idle"
    /\ Mutations(DOMAIN ser) < MaxMutations
    /\ MutateOn(i, WithFields(ser[i], FieldsOf(ser[i])), FieldsOf(ser[i]),
                FieldsOf(ser[i]).heap)
    /\ UNCHANGED <<declared, meta, db, co>>

-----------------------------------------------------------------------------
(* The view handlers CreateModelMixin.create and UpdateModelMixin.update:      *)
(* is_valid(); a 400 response with the errors if it failed; save(); a response *)
(* with the serializer's data                                                  *)

\* where the handler goes once a call on its serializer has come back with res
AfterCall(res, running, next) ==
    CASE res = "pending" -> running
      [] res \in {"True", "ok"} -> next
      [] res = "False" -> "bad_request"
      [] OTHER -> "server_error"

\* `if not await serializer.is_valid()`
view_is_valid(i) ==
    /\ view[i] = "is_valid"
    /\ is_valid_call(i, FALSE)
    /\ view' = [view EXCEPT ![i] = AfterCall(hist'[i].res, "is_valid_running", "save")]
    /\ UNCHANGED others

view_is_valid_running(i) ==
    /\ view[i] = "is_valid_running"
    /\ to_internal_value_step(i)
    /\ view' = [view EXCEPT ![i] = AfterCall(hist'[i].res, "is_valid_running", "save")]
    /\ UNCHANGED others

\* perform_create / perform_update: `await serializer.save()`
view_save(i) ==
    /\ view[i] = "save"
    /\ save_call(i)
    /\ view' = [view EXCEPT ![i] = AfterCall(hist'[i].res, "save_running", "data")]
    /\ UNCHANGED others

view_save_running(i) ==
    /\ view[i] = "save_running"
    /\ save_return(i)
    /\ view' = [view EXCEPT ![i] = AfterCall(hist'[i].res, "save_running", "data")]
    /\ UNCHANGED others

\* `body=json.dumps(await serializer.data)`
view_data(i) ==
    /\ view[i] = "data"
    /\ data(i)
    /\ view' = [view EXCEPT ![i] = AfterCall(hist'[i].res, "data", "responded")]
    /\ UNCHANGED others

\* a serializer whose view is "" is driven directly by its caller: any call, in
\* any order; the others are driven by their view handler. The coroutines
\* interleave at their awaits.
Direct(i) == view[i] = "" /\ UNCHANGED <<view, others>>

Next ==
    \/ \E i \in DOMAIN ser, raise_error \in BOOLEAN :
            is_valid_call(i, raise_error) /\ Direct(i)
    \/ \E i \in DOMAIN ser : to_internal_value_step(i) /\ Direct(i)
    \/ \E i \in DOMAIN ser : save_call(i) /\ Direct(i)
    \/ \E i \in DOMAIN ser : save_return(i) /\ Direct(i)
    \/ \E i \in DOMAIN ser : data(i) /\ Direct(i)
    \/ \E i \in DOMAIN ser : replace_field(i) /\ Direct(i)
    \/ \E i \in DOMAIN ser : mutate_field(i) /\ Direct(i)
    \/ \E i \in DOMAIN ser : view_is_valid(i)
    \/ \E i \in DOMAIN ser : view_is_valid_running(i)
    \/ \E i \in DOMAIN ser : view_save(i)
    \/ \E i \in DOMAIN ser : view_save_running(i)
    \/ \E i \in DOMAIN ser : view_data(i)

-----------------------------------------------------------------------------
(* Initial states: the class as defined, the table, the constructed serializers *)

\* SerializerMeta.__new__: the declared Field objects of the class body
TemplateHeap ==
    << Validator("MinLengthValidator", TitleMinLen),
       Field("CharField", "title", "str", FALSE, <<1>>),
       Field("UniqueUUIDField", "uid", "uuid", FALSE, <<>>) >>

\* SerializerMeta.__new__: _declared_fields
TemplateDeclared == << [k |-> "title", v |-> 2], [k |-> "uid", v |-> 3] >>

\* class Meta of the serializer: an explicit allow-list, as the serializers of api/v1
MetaOk ==
    [model |-> "concrete",
     fields |-> OptList(<<"id", "title", "enabled", "uid">>),
     exclude |-> OptNone]

\* the table before the requests: one row
InitDb == << [title |-> StrV(TitleMinLen), enabled |-> BoolV(TRUE), uid |-> UuidV(1)] >>

\* a key the input mapping does not carry
Absent == [t |-> "absent", n |-> 0]

\* the decoded JSON object with the given values (Absent = key not present)
MkDict(t, e, u) ==
    LET all == [name \in {"title", "enabled", "uid"} |->
                    CASE name = "title" -> t [] name = "enabled" -> e [] OTHER -> u]
    IN [isdict |-> TRUE,
        items |-> [name \in {n \in DOMAIN all : all[n] # Absent} |-> all[name]]]

\* a decoded JSON array: not a mapping
NotADict == [isdict |-> FALSE, items |-> <<>>]

TitleValues ==
    {NoneV, StrV(0), StrV(TitleMinLen - 1), StrV(TitleMinLen), StrV(DefaultMaxLength + 1), IntV(5)}
EnabledValues == {NoneV, BoolV(FALSE), BoolV(TRUE), StrV(1)}
UidValues == {UuidStrV(1), UuidStrV(2), StrV(1), IntV(5)}

\* get_serializer(instance=..., data=..., partial=...) of the views, any arguments
RichSerializers ==
    {NewSerializer(inst, TRUE, MkDict(t, e, u), partial) :
        inst \in {0, 1}, partial \in BOOLEAN,
        t \in TitleValues \cup {Absent}, e \in EnabledValues \cup {Absent},
        u \in UidValues \cup {Absent}}
    \cup {NewSerializer(inst, TRUE, NotADict, FALSE) : inst \in {0, 1}}
    \cup {NewSerializer(inst, FALSE, NotADict, FALSE) : inst \in {0, 1}}

\* the serializers of two create / update requests
RequestSerializers ==
    {NewSerializer(inst, TRUE, MkDict(t, BoolV(TRUE), u), FALSE) :
        inst \in {0, 1},
        t \in {StrV(TitleMinLen - 1), StrV(TitleMinLen)},
        u \in {UuidStrV(1), UuidStrV(2)}}

\* a serializer over a valid input
SharingSerializers ==
    {NewSerializer(0, TRUE, MkDict(StrV(TitleMinLen), BoolV(TRUE), UuidStrV(2)), FALSE)}

InitWith(sers, views) ==
    /\ heap = TemplateHeap
    /\ declared = TemplateDeclared
    /\ meta = MetaOk
    /\ db = InitDb
    /\ ser \in sers
    /\ co = [i \in DOMAIN ser |-> Idle]
    /\ view \in views
    /\ hist = [i \in DOMAIN ser |-> NoHist]
    /\ lst = Unused /\ conv = Unused /\ orm = Unused

\* one serializer, any input
Init == InitWith([{1} -> RichSerializers], [{1} -> {"", "is_valid"}])

Spec == Init /\ [][Next]_vars

\* two serializers of the same class: the second serves a request, the first
\* serves another request or is driven directly over a valid input
InitConc ==
    /\ InitWith([{1, 2} -> RequestSerializers], {[i \in {1, 2} |-> IF i = 1 THEN v ELSE "is_valid"] : v \in {"", "is_valid"}})
    /\ view[1] = "" => ser[1] \in SharingSerializers

SpecConc == InitConc /\ [][Next]_vars

\* values of Meta.fields and Meta.exclude a class body can carry
FieldsOptions ==
    {OptNone, OptAll, OptStr, OptList(<<>>),
     OptList(<<"id", "title", "enabled", "uid">>), OptList(<<"id", "title">>)}
ExcludeOptions ==
    {OptNone, OptStr, OptList(<<>>), OptList(<<"enabled">>), OptList(<<"uid">>)}

\* one serializer of a class with any Meta, with or without declared fields
InitMeta ==
    /\ \/ heap = TemplateHeap /\ declared = TemplateDeclared
       \/ heap = <<>> /\ declared = <<>>
    /\ meta \in [model : {"none", "abstract", "concrete"},
                 fields : FieldsOptions, exclude : ExcludeOptions]
    /\ db = InitDb
    /\ ser \in [{1} -> {NewSerializer(0, TRUE, MkDict(StrV(TitleMinLen), BoolV(TRUE), u), FALSE) :
                          u \in {UuidStrV(1), UuidStrV(2)}}]
    /\ co = [i \in DOMAIN ser |-> Idle]
    /\ view \in [{1} -> {"", "is_valid"}]
    /\ hist = [i \in DOMAIN ser |-> NoHist]
    /\ lst = Unused /\ conv = Unused /\ orm = Unused

SpecMeta == InitMeta /\ [][Next]_vars

-----------------------------------------------------------------------------
(* Properties *)

\* is_valid() has come back on serializer i after to_internal_value returned
Answered(i) == hist[i].op = "is_valid" /\ hist[i].last_valid \in {"True", "False"}

\* the table every field of the registry is given
AllSee(table) == [name \in Names |-> table]

\* C1: save() invokes a hook only if an earlier is_valid() on the instance
\* returned success and no errors are recorded; save() called when is_valid() was
\* never called, or after it returned failure, ends in AssertionError with no hook
C1_SaveNeedsValid ==
    \A i \in DOMAIN ser :
        hist[i].op = "save" =>
            /\ hist[i].hooks # <<>> => hist[i].ever_valid /\ ~ErrorsTruthy(ser[i])
            /\ hist[i].last_valid \in {"never", "False"} =>
                   hist[i].res = "AssertionError" /\ hist[i].hooks = <<>>

\* save() refused on a serializer that was valid once and failed validation since
C1_Witness ==
    \E i \in DOMAIN ser :
        /\ hist[i].op = "save" /\ hist[i].res = "AssertionError"
        /\ hist[i].ever_valid /\ hist[i].last_valid = "False"

\* C2 (as stated): validated_data and errors are never both present
C2_MutuallyExclusive ==
    \A i \in DOMAIN ser : ~(ser[i].has_validated_data /\ ser[i].has_errors)

\* C3: data on a serializer constructed with raw input, is_valid() never called,
\* raises AssertionError and caches no representation
C3_DataBeforeIsValid ==
    \A i \in DOMAIN ser :
        hist[i].op = "data" /\ ser[i].has_initial_data /\ hist[i].last_valid = "never" =>
            hist[i].res = "AssertionError" /\ ~ser[i].has_data

\* data was awaited on a serializer over a raw input mapping before any is_valid()
C3_Witness ==
    \E i \in DOMAIN ser :
        /\ hist[i].op = "data" /\ hist[i].last_valid = "never"
        /\ ser[i].has_initial_data /\ ser[i].initial_data.isdict

\* C4 (as stated): once is_valid() has answered on a serializer with raw input,
\* data is not fatal whatever the answer was, and is computed from the branch
\* the instance / validated data / errors select
C4_DataAfterIsValid ==
    \A i \in DOMAIN ser :
        hist[i].op = "data" /\ ser[i].has_initial_data
        /\ hist[i].last_valid \in {"True", "False"} =>
            /\ hist[i].res = "ok"
            /\ ser[i].has_data
            /\ ser[i].data.src = DataSource(ser[i])

\* C5: a save() whose assertions pass awaits exactly one hook, update when an
\* instance was bound at the call and create otherwise; a hook returning None ends
\* save() in AssertionError; a returned instance is what save() returns and binds
C5_SaveDelegates ==
    \A i \in DOMAIN ser :
        hist[i].op = "save" =>
            /\ hist[i].res # "AssertionError" \/ hist[i].hook_ret # "" =>
                   hist[i].hooks =
                       << IF hist[i].bound_at_call # 0 THEN "update" ELSE "create" >>
            /\ hist[i].hook_ret = "null" =>
                   hist[i].res = "AssertionError" /\ hist[i].ret = 0
            /\ hist[i].hook_ret = "instance" =>
                   /\ hist[i].res = "ok"
                   /\ hist[i].ret # 0
                   /\ ser[i].instance = hist[i].ret
                   /\ hist[i].bound_at_call # 0 => hist[i].ret = hist[i].bound_at_call

\* save() on a bound serializer has updated and returned the bound instance
C5_Witness ==
    \E i \in DOMAIN ser :
        /\ hist[i].op = "save" /\ hist[i].hooks = <<"update">>
        /\ hist[i].hook_ret = "instance" /\ ser[i].instance = hist[i].ret

C7_PartialSkipsAbsentOnly ==
    \A i \in DOMAIN ser :
        Answered(i) /\ hist[i].calls = 1 /\ ser[i].partial =>
            \A e \in SeqToSet(Writable(heap, ser[i].fields)) :
                e.k \in DOMAIN ser[i].initial_data.items
                    <=> Has(hist[i].returned, e.k) \/ Has(ser[i].errors, e.k)

\* the objects a registry holds: its fields and their validators
RegistryObjects(h, fields) ==
    UNION {{e.v} \cup SeqToSet(h[e.v].validators) : e \in SeqToSet(fields)}

\* the objects of the class-level template
TemplateObjects == 1..Len(TemplateHeap)

\* errors / validated / exception of to_internal_value over a registry
Outcome(h, fields, s, table) ==
    ToInternalValue(h, Writable(h, fields), s.initial_data.items, s.partial,
                    AllSee(table), NoAcc)

\* the registry a fresh instance of the class builds from the untouched template
Pristine == get_fields(TemplateHeap, TemplateDeclared, MetaOk)

\* C8: the objects of an instance's registry are disjoint from the template and
\* from every other registry; whatever is done to any instance, the template is
\* unchanged and an instance whose registry was not touched validates as a fresh one
C8_RegistriesIndependent ==
    /\ declared = TemplateDeclared
    /\ \A k \in TemplateObjects : heap[k] = TemplateHeap[k]
    /\ \A i \in DOMAIN ser :
           ser[i].has_fields =>
               /\ RegistryObjects(heap, ser[i].fields) \cap TemplateObjects = {}
               /\ \A j \in DOMAIN ser \ {i} :
                      ser[j].has_fields =>
                          RegistryObjects(heap, ser[i].fields)
                              \cap RegistryObjects(heap, ser[j].fields) = {}
               /\ ser[i].mutations = 0 =>
                      Outcome(heap, ser[i].fields, ser[i], db)
                          = Outcome(Pristine.heap, Pristine.fields, ser[i], db)

\* one instance's registry was mutated and the other instance has validated
C8_Witness ==
    \E i \in DOMAIN ser, j \in DOMAIN ser :
        /\ ser[i].mutations > 0
        /\ ser[j].mutations = 0 /\ ser[j].has_fields /\ Answered(j)

\* what is_valid() answers and stores when the serializer runs alone over a
\* fresh registry and finds `table` at the model collaborator
RunAlone(s, table) ==
    LET acc == Outcome(Pristine.heap, Pristine.fields, s, table)
    IN [res |-> IF acc.errors = <<>> THEN "True" ELSE "False",
        errors |-> acc.errors,
        validated_data |-> IF acc.errors = <<>> THEN acc.validated ELSE <<>>]

\* what the first is_valid() on serializer i answered and stored
Produced(i) ==
    [res |-> hist[i].last_valid, errors |-> ser[i].errors,
     validated_data |-> ser[i].validated_data]

\* the first is_valid() of an untouched serializer i has answered
FirstAnswer(i) == Answered(i) /\ hist[i].calls = 1 /\ ser[i].mutations = 0

\* C9 (as stated): under every interleaving of two requests, is_valid()'s result,
\* errors and validated_data equal those of the instance run alone on its input
C9_AsIfAlone ==
    \A i \in DOMAIN ser : FirstAnswer(i) => Produced(i) = RunAlone(ser[i], InitDb)

\* C9 (amended): they equal those of the instance run alone on its input against
\* the table contents its uniqueness lookup found
C9_AsIfAloneOnObservedTable ==
    \A i \in DOMAIN ser : FirstAnswer(i) => Produced(i) = RunAlone(ser[i], hist[i].obs)

\* a request validated after the other request had committed its row
C9_Witness ==
    \E i \in DOMAIN ser, j \in DOMAIN ser :
        /\ i # j
        /\ FirstAnswer(i)
        /\ hist[i].obs # InitDb
        /\ hist[j].op = "save" /\ hist[j].res = "ok"

\* C10 (as stated): a registry exists only if exactly one of Meta.fields and
\* Meta.exclude is configured
C10_ExactlyOneConfigured ==
    \A i \in DOMAIN ser :
        ser[i].has_fields => (meta.fields.kind # "none") # (meta.exclude.kind # "none")

-----------------------------------------------------------------------------
(* Construction with many=True and ListSerializer *)

\* elements an input sequence may hold
MaxItems == 2

\* a decoded JSON array
MkList(seq) == [isdict |-> FALSE, items |-> <<>>, islist |-> TRUE, list |-> seq]

\* no value: Python's None as an argument
NoArg == [none |-> TRUE]

\* **kwargs: the names given and their values (a name not given holds a filler)
KwNone ==
    [given |-> {},
     val |-> [many |-> FALSE, instance |-> NoArg, data |-> NoArg, partial |-> FALSE,
              context |-> NoArg, allow_empty |-> TRUE, child |-> NoArg]]

\* `kwargs.pop(name, default)`: the value
KwGet(kwargs, name, default) == IF name \in kwargs.given THEN kwargs.val[name] ELSE default

\* `kwargs.pop(name, ...)`: what is left of kwargs
KwDrop(kwargs, name) ==
    [given |-> kwargs.given \ {name}, val |-> [kwargs.val EXCEPT ![name] = KwNone.val[name]]]

\* kwargs with one more key
KwPut(kwargs, name, value) ==
    [given |-> kwargs.given \cup {name}, val |-> [kwargs.val EXCEPT ![name] = value]]

\* the parameter `pos` (1 = instance, 2 = data) of BaseSerializer.__init__ as
\* Python binds it: positionally, by keyword, or to its default None
Bound(args, kwargs, pos, name) ==
    IF Len(args) >= pos THEN args[pos] ELSE KwGet(kwargs, name, NoArg)

\* BaseSerializer.__init__(instance=None, data=None, **kwargs): the attributes set
BaseInit(args, kwargs) ==
    [instance |-> Bound(args, kwargs, 1, "instance"),
     has_initial_data |-> Bound(args, kwargs, 2, "data") # NoArg,
     initial_data |-> Bound(args, kwargs, 2, "data"),
     partial |-> KwGet(kwargs, "partial", FALSE),
     context |-> KwGet(kwargs, "context", NoArg),
     has_errors |-> FALSE, errors |-> <<>>,
     has_validated_data |-> FALSE, validated_data |-> <<>>]

\* an instance of the declared serializer class, constructed normally
DeclaredInit(args, kwargs) ==
    [cls |-> "Declared", exc |-> "", child |-> NoArg, allow_empty |-> TRUE,
     attrs |-> BaseInit(args, kwargs)]

\* ListSerializer.__init__(**kwargs)
ListInit(kwargs) ==
    IF KwGet(kwargs, "child", NoArg) = NoArg
    THEN \* deepcopy(self.child) is None: `assert self.child is not None`
         [cls |-> "ListSerializer", exc |-> "AssertionError", child |-> NoArg,
          allow_empty |-> KwGet(kwargs, "allow_empty", TRUE),
          attrs |-> BaseInit(<<>>, KwNone)]
    ELSE [cls |-> "ListSerializer", exc |-> "", child |-> KwGet(kwargs, "child", NoArg),
          allow_empty |-> KwGet(kwargs, "allow_empty", TRUE),
          attrs |-> BaseInit(<<>>, KwDrop(KwDrop(kwargs, "child"), "allow_empty"))]

\* list_kwargs of many_init: the child, allow_empty if it was given, then kwargs
ListKwargs(child, kwargs) == KwPut(kwargs, "child", child)

\* BaseSerializer.many_init(cls, *args, **kwargs)
many_init(args, kwargs) ==
    ListInit(ListKwargs(DeclaredInit(args, KwDrop(kwargs, "allow_empty")), kwargs))

\* cls(*args, **kwargs): BaseSerializer.__new__, then __init__ if __new__
\* returned an instance of cls
New(call) ==
    IF call.cls = "ListSerializer" THEN ListInit(call.kwargs)
    ELSE IF KwGet(call.kwargs, "many", FALSE) = TRUE
    THEN many_init(call.args, KwDrop(call.kwargs, "many"))
    ELSE DeclaredInit(call.args, KwDrop(call.kwargs, "many"))

\* the constructor call returns or raises
construct ==
    /\ lst.pc = "call"
    /\ lst' = [lst EXCEPT !.pc = IF New(lst.call).exc = "" THEN "built" ELSE "raised",
                          !.obj = New(lst.call)]
    /\ UNCHANGED <<heap, declared, meta, db, ser, co, view, hist, conv, orm>>

\* what `for item in data` iterates over: the elements of a list, the keys of a dict
Iterated(value) ==
    IF value.isdict
    THEN LET RECURSIVE keys(_)
             keys(S) == IF S = {} THEN <<>>
                        ELSE LET k == CHOOSE k \in S : TRUE
                             IN <<[isdict |-> FALSE, items |-> <<>>, key |-> k]>> \o keys(S \ {k})
         IN keys(DOMAIN value.items)
    ELSE value.list

\* child.to_internal_value(item) on the child serializer `c`:
\* [exc, validated, errors]; the loop reads self.initial_data of the child
ChildToInternal(c, item) ==
    IF ~item.isdict THEN [NoAcc EXCEPT !.exc = "ValidationError"]
    ELSE IF ~c.has_initial_data THEN [NoAcc EXCEPT !.exc = "AttributeError"]
    ELSE IF ~c.initial_data.isdict
    THEN \* a list has no .get (partial) and takes no str index
         [NoAcc EXCEPT !.exc = IF c.partial THEN "AttributeError" ELSE "TypeError"]
    ELSE Outcome(Pristine.heap, Pristine.fields, c, db)

\* the child after its to_internal_value left acc
ChildAfter(c, acc) ==
    IF acc.exc = "" /\ acc.errors # <<>>
    THEN [c EXCEPT !.has_errors = TRUE, !.errors = acc.errors]
    ELSE c

\* BaseSerializer.is_valid on the list serializer once to_internal_value returned
ListFinish(l, validated) ==
    IF l.obj.attrs.has_errors /\ l.obj.attrs.errors # <<>>
    THEN [l EXCEPT !.pc = "done", !.res = "False", !.todo = <<>>]
    ELSE [l EXCEPT !.pc = "done", !.res = "True", !.todo = <<>>,
                   !.obj.attrs.has_validated_data = TRUE,
                   !.obj.attrs.validated_data = validated]

\* is_valid() on the list serializer: up to the first element
ListIsValidOn(l, a) ==
    IF ~a.has_initial_data THEN [l EXCEPT !.pc = "done", !.res = "AttributeError"]
    ELSE IF Iterated(a.initial_data) = <<>> THEN ListFinish(l, <<>>)
    ELSE [l EXCEPT !.pc = "to_internal_value", !.todo = Iterated(a.initial_data),
                   !.acc = <<>>]

list_is_valid_call ==
    /\ lst.pc = "built"
    /\ lst.obj.cls = "ListSerializer"
    /\ lst' = ListIsValidOn(lst, lst.obj.attrs)
    /\ UNCHANGED <<heap, declared, meta, db, ser, co, view, hist, conv, orm>>

\* one element of the comprehension has gone through the child
ListStepOn(l, acc) ==
    IF acc.exc # "" THEN [l EXCEPT !.pc = "done", !.res = acc.exc, !.todo = <<>>]
    ELSE IF Tail(l.todo) # <<>>
    THEN [l EXCEPT !.todo = Tail(l.todo), !.acc = Append(l.acc, acc.validated),
                   !.obj.child.attrs = ChildAfter(l.obj.child.attrs, acc)]
    ELSE ListFinish([l EXCEPT !.obj.child.attrs = ChildAfter(l.obj.child.attrs, acc)],
                    Append(l.acc, acc.validated))

\* ListSerializer.to_internal_value: `await self.child.to_internal_value(item)`
list_to_internal_value_step ==
    /\ lst.pc = "to_internal_value"
    /\ lst' = ListStepOn(lst, ChildToInternal(lst.obj.child.attrs, Head(lst.todo)))
    /\ UNCHANGED <<heap, declared, meta, db, ser, co, view, hist, conv, orm>>

NextMany ==
    \/ construct
    \/ list_is_valid_call
    \/ list_to_internal_value_step

\* the elements of the input sequences
ItemValues ==
    {MkDict(StrV(TitleMinLen), BoolV(TRUE), UuidStrV(2)),
     MkDict(StrV(TitleMinLen - 1), BoolV(TRUE), UuidStrV(2)),
     MkDict(StrV(TitleMinLen + 1), BoolV(FALSE), UuidStrV(1))}

\* the sequences of at most n elements of S
RECURSIVE SeqsUpTo(_, _)
SeqsUpTo(S, n) ==
    IF n = 0 THEN {<<>>}
    ELSE SeqsUpTo(S, n - 1) \cup {Append(q, x) : q \in {r \in SeqsUpTo(S, n - 1) : Len(r) = n - 1}, x \in S}

\* the `data` argument of the calls
DataValues == {MkList(q) : q \in SeqsUpTo(ItemValues, MaxItems)}

\* a model instance or queryset handed to the serializer
AnInstance == [none |-> FALSE, pk |-> 1]

\* keyword arguments: every choice of partial, context, allow_empty over `base`
WithOptions(base) ==
    {[given |-> base.given \cup opts,
      val |-> [base.val EXCEPT !.partial = "partial" \in opts,
                               !.context = IF "context" \in opts
                                           THEN [none |-> FALSE, request |-> TRUE]
                                           ELSE NoArg,
                               !.allow_empty = IF "allow_empty" \in opts THEN ae ELSE TRUE]] :
        opts \in SUBSET {"partial", "context", "allow_empty"}, ae \in BOOLEAN}

\* many=True
KwMany == KwPut(KwNone, "many", TRUE)

\* Declared(..., many=True) with instance and data given by keyword or by position
ManyCalls ==
    {[cls |-> "Declared", args |-> <<>>, kwargs |-> kw] :
        kw \in UNION {WithOptions(KwPut(KwMany, "data", d)) \cup
                      WithOptions(KwPut(KwPut(KwMany, "instance", AnInstance), "data", d)) :
                          d \in DataValues}}
    \cup {[cls |-> "Declared", args |-> <<>>, kwargs |-> kw] :
            kw \in WithOptions(KwPut(KwMany, "instance", AnInstance))}
    \cup {[cls |-> "Declared", args |-> <<AnInstance>>, kwargs |-> kw] :
            kw \in WithOptions(KwMany)}
    \cup {[cls |-> "Declared", args |-> <<NoArg, d>>, kwargs |-> kw] :
            kw \in WithOptions(KwMany), d \in DataValues}

\* ListSerializer(...) called directly, with a child of its own or without
ListCalls ==
    {[cls |-> "ListSerializer", args |-> <<>>, kwargs |-> kw] :
        kw \in UNION {WithOptions(KwPut(KwNone, "data", d)) \cup
                      WithOptions(KwPut(KwPut(KwNone, "data", d), "child",
                                        DeclaredInit(<<>>, KwPut(KwNone, "data", d0)))) \cup
                      WithOptions(KwPut(KwPut(KwNone, "data", d), "child",
                                        DeclaredInit(<<>>, KwNone))) :
                          d \in DataValues, d0 \in ItemValues}}

\* a constructor call about to be made
NewList(call) ==
    [pc |-> "call", call |-> call, obj |-> NoArg, todo |-> <<>>, acc |-> <<>>, res |-> ""]

InitMany ==
    /\ heap = TemplateHeap
    /\ declared = TemplateDeclared
    /\ meta = MetaOk
    /\ db = InitDb
    /\ ser = <<>> /\ co = <<>> /\ view = <<>> /\ hist = <<>>
    /\ lst \in {NewList(call) : call \in ManyCalls \cup ListCalls}
    /\ conv = Unused /\ orm = Unused

SpecMany == InitMany /\ [][NextMany]_vars

(***************************************************************************)
(* Properties of list serializers *)
(***************************************************************************)

\* what the caller of Declared(*args, many=True, **kwargs) handed over
Given(call) == BaseInit(call.args, call.kwargs)

\* C11 (as stated): Declared(..., many=True) returns a ListSerializer whose child
\* is a normally constructed Declared and which carries the caller's instance,
\* data, partial and context; a ListSerializer without a child fails fatally
C11_ManyBuildsList ==
    /\ lst.pc \in {"built", "raised"} /\ lst.call.cls = "Declared" =>
        /\ lst.pc = "built"
        /\ lst.obj.cls = "ListSerializer"
        /\ lst.obj.child.cls = "Declared"
        /\ lst.obj.attrs.instance = Given(lst.call).instance
        /\ lst.obj.attrs.initial_data = Given(lst.call).initial_data
        /\ lst.obj.attrs.partial = Given(lst.call).partial
        /\ lst.obj.attrs.context = Given(lst.call).context
    /\ lst.pc \in {"built", "raised"} /\ lst.call.cls = "ListSerializer"
            /\ "child" \notin lst.call.kwargs.given =>
        lst.pc = "raised" /\ lst.obj.exc = "AssertionError"

\* is_valid() has answered on a list serializer over a zero-length list
EmptyValidated ==
    /\ lst.pc = "done"
    /\ lst.obj.attrs.has_initial_data
    /\ lst.obj.attrs.initial_data.islist
    /\ lst.obj.attrs.initial_data.list = <<>>

\* C12 (as stated): validating an empty sequence succeeds when allow_empty is
\* true and fails when allow_empty is false
C12_AllowEmptyDecides ==
    EmptyValidated => (lst.res = "True" <=> lst.obj.allow_empty)

\* the child serializer validating the mapping `item` on that mapping's values
OnItsOwn(c, item) ==
    Outcome(Pristine.heap, Pristine.fields,
            [c EXCEPT !.has_initial_data = TRUE, !.initial_data = item], db)

\* is_valid() has ended on a list serializer over a non-empty list of mappings
ListValidated ==
    /\ lst.pc = "done"
    /\ lst.obj.attrs.has_initial_data
    /\ lst.obj.attrs.initial_data.islist
    /\ lst.obj.attrs.initial_data.list # <<>>

\* C20 (as stated): to_internal_value of a list serializer returns one result per
\* element, the i-th being the child's to_internal_value of the i-th element,
\* validated on that element's own values
C20_ElementwiseMap ==
    ListValidated =>
        /\ lst.res = "True"
        /\ Len(lst.obj.attrs.validated_data) = Len(lst.obj.attrs.initial_data.list)
        /\ \A k \in 1..Len(lst.obj.attrs.initial_data.list) :
               lst.obj.attrs.validated_data[k] =
                   OnItsOwn(lst.obj.child.attrs, lst.obj.attrs.initial_data.list[k]).validated

(***************************************************************************)
(* Properties of required fields *)
(***************************************************************************)

\* the required writable fields of serializer i that its input mapping omits
Omitted(i) ==
    {e \in SeqToSet(Writable(heap, ser[i].fields)) :
        heap[e.v].required /\ e.k \notin DOMAIN ser[i].initial_data.items}

\* the first is_valid() of the non-partial serializer i over a mapping has ended
FirstNonPartialEnded(i) ==
    /\ hist[i].op = "is_valid" /\ hist[i].calls = 1
    /\ hist[i].last_valid # "running"
    /\ ser[i].has_initial_data /\ ser[i].initial_data.isdict
    /\ ser[i].has_fields
    /\ ~ser[i].partial

\* C13 (as stated): a non-partial is_valid() over a mapping that omits a required
\* writable field answers failure with an errors entry under that name, having
\* processed the other fields; no other exception leaves is_valid()
C13_OmissionIsValidationError ==
    \A i \in DOMAIN ser :
        FirstNonPartialEnded(i) /\ Omitted(i) # {} =>
            /\ hist[i].last_valid = "False"
            /\ \A e \in Omitted(i) : Has(ser[i].errors, e.k)
            /\ \A e \in SeqToSet(Writable(heap, ser[i].fields)) \ Omitted(i) :
                   Has(hist[i].returned, e.k) \/ Has(ser[i].errors, e.k)

(***************************************************************************)
(* Properties of Meta.fields and Meta.exclude *)
(***************************************************************************)

\* is_valid() of serializer i over its input mapping has ended
IsValidEnded(i) ==
    /\ hist[i].op = "is_valid"
    /\ hist[i].last_valid # "running"
    /\ ser[i].has_initial_data /\ ser[i].initial_data.isdict

\* C18 (as stated): with Meta.fields = '__all__' get_fields() resolves the full
\* generated set: the registry holds every field of the model's schema
C18_AllFieldsSentinel ==
    \A i \in DOMAIN ser :
        meta.model = "concrete" /\ meta.fields = OptAll /\ ~OptTruthy(meta.exclude) =>
            /\ IsValidEnded(i) => ser[i].has_fields
            /\ ser[i].has_fields => Keys(ser[i].fields) = SeqToSet(ModelFieldNames)

\* the names Meta.exclude lists
Excluded == SeqToSet(meta.exclude.names)

\* C19 (as stated): with Meta.exclude configured get_fields() resolves the
\* generated set minus the excluded names; excluding a declared name or a name
\* the model lacks fails with AssertionError; excluding a generated name succeeds
C19_ExcludeRemoves ==
    \A i \in DOMAIN ser :
        /\ meta.model = "concrete" /\ meta.fields = OptNone
        /\ meta.exclude.kind = "list" /\ meta.exclude.names # <<>>
        /\ IsValidEnded(i) /\ hist[i].calls = 1
        => IF \E n \in Excluded : Has(declared, n) \/ n \notin SeqToSet(ModelFieldNames)
           THEN hist[i].res = "AssertionError" /\ ~ser[i].has_fields
           ELSE /\ ser[i].has_fields
                /\ Keys(ser[i].fields) = SeqToSet(ModelFieldNames) \ Excluded

-----------------------------------------------------------------------------
(* Field conversions: to_internal_value and to_representation of one field *)

\* primary keys a lookup may ask for
MaxPk == 3

DateStrV(k) == [t |-> "datestr", n |-> k]
DateTimeStrV(k) == [t |-> "datetimestr", n |-> k]
DateV(k) == [t |-> "date", n |-> k]
DateTimeV(k) == [t |-> "datetime", n |-> k]
JsonObjV(k) == [t |-> "dict", n |-> k]
JsonTextV(k) == [t |-> "jsonstr", n |-> k]
InstanceV(pk) == [t |-> "instance", n |-> pk]
ListV(len) == [t |-> "list", n |-> len]

\* the directives of the format DateField hands to strptime: '%Y-%m-%D'
DateFormat == <<"Y", "m", "D">>
\* the directives of the format DateTimeField hands to strptime: '%Y-%m-%DT%H:%M:%S'
DateTimeFormat == <<"Y", "m", "D", "H", "M", "S">>
\* the directives datetime.strptime knows
StrptimeDirectives ==
    {"a", "A", "w", "d", "b", "B", "m", "y", "Y", "H", "I", "p", "M", "S", "f",
     "z", "Z", "j", "U", "W", "c", "x", "X", "G", "u", "V"}

\* datetime.datetime.strptime(value, format); `text` is the kind of text the
\* format would match if every directive were known
Strptime(value, format, text) ==
    IF ~IsInstance(value, "str") THEN Crash("TypeError")
    ELSE IF \E d \in SeqToSet(format) : d \notin StrptimeDirectives
         THEN \* 'D' is a bad directive in format
              Crash("ValueError")
    ELSE IF value.t = text THEN Ok(DateTimeV(value.n))
    ELSE Crash("ValueError")

\* DateField.to_internal_value: Field.to_internal_value(dt.date())
DateFieldToInternal(f, value) ==
    LET dt == Strptime(value, DateFormat, "datestr")
    IN IF dt.kind # "ok" THEN dt ELSE FieldValidate(<<>>, f, DateV(dt.val.n))

\* DateTimeField.to_internal_value: Field.to_internal_value(dt.date())
DateTimeFieldToInternal(f, value) ==
    LET dt == Strptime(value, DateTimeFormat, "datetimestr")
    IN IF dt.kind # "ok" THEN dt ELSE FieldValidate(<<>>, f, DateV(dt.val.n))

\* json.dumps(data)
JsonDumps(value) ==
    CASE value.t = "dict" -> Ok(JsonTextV(value.n))
      [] value.t \in {"str", "uuidstr", "datestr", "datetimestr", "jsonstr"} ->
            Ok(StrV(PyLen(value) + 2))
      [] value.t = "int" -> Ok(StrV(1))
      [] value.t = "bool" -> Ok(StrV(IF value.n = 1 THEN 4 ELSE 5))
      [] value.t = "none" -> Ok(StrV(4))
      [] OTHER -> Crash("TypeError")

\* JSONField.to_internal_value: Field.to_internal_value(json.dumps(data))
JSONFieldToInternal(f, value) ==
    LET text == JsonDumps(value)
    IN IF text.kind # "ok" THEN text ELSE FieldValidate(<<>>, f, text.val)

\* the names model_class.get accepts as filter keywords
LookupNames == {"pk", "id", "title", "enabled", "uid"}

\* the row at pk has `value` under the lookup name
RowMatches(table, pk, name, value) ==
    CASE name \in {"pk", "id"} -> value = IntV(pk)
      [] name = "uid" -> value.t \in {"uuid", "uuidstr"} /\ value.n = table[pk].uid.n
      [] OTHER -> table[pk][name] = value

\* await model_class.get(**{name: value}): the pk found, or the exception raised
OrmGet(table, name, value) ==
    LET found == {pk \in 1..Len(table) : RowMatches(table, pk, name, value)}
    IN IF name \notin LookupNames THEN [exc |-> "FieldError", pk |-> 0]
       ELSE IF found = {} THEN [exc |-> "DoesNotExist", pk |-> 0]
       ELSE IF Cardinality(found) > 1 THEN [exc |-> "MultipleObjectsReturned", pk |-> 0]
       ELSE [exc |-> "", pk |-> CHOOSE pk \in found : TRUE]

\* ModelField.to_internal_value once model_class.get has answered `got`:
\* [out |-> the outcome, lookup |-> what the collaborator answered]
ModelFieldAnswer(got) ==
    [out |-> CASE got.exc = "" -> Ok(InstanceV(got.pk))
               [] got.exc = "DoesNotExist" -> VErr("Incorrect lookup value")
               [] got.exc = "FieldError" -> VErr("Incorrect lookup field")
               [] OTHER -> Crash(got.exc),
     lookup |-> IF got.exc = "" THEN "found" ELSE got.exc]

\* model_class.get asked for a list of instances instead of a value: the
\* collaborator finds nothing or fails in its own way
GetByList == {[exc |-> "DoesNotExist", pk |-> 0], [exc |-> "OperationalError", pk |-> 0]}

\* the loop of ModelMultiPrimaryKeyField.to_internal_value: the first get that
\* raises, or no exception; the keyword is the literal `lookup_field`
RECURSIVE MultiGet(_, _)
MultiGet(table, pks) ==
    IF pks = <<>> THEN [exc |-> "", pk |-> 0]
    ELSE IF OrmGet(table, "lookup_field", IntV(Head(pks))).exc # ""
         THEN OrmGet(table, "lookup_field", IntV(Head(pks)))
    ELSE MultiGet(table, Tail(pks))

\* ModelMultiPrimaryKeyField.to_internal_value: only DoesNotExist is caught in the
\* loop; then ModelField.to_internal_value(instances)
MultiFieldAnswers(c, table) ==
    IF MultiGet(table, c.pks).exc = "DoesNotExist"
    THEN {[out |-> VErr(""), lookup |-> "DoesNotExist"]}
    ELSE IF MultiGet(table, c.pks).exc # ""
    THEN {[out |-> Crash(MultiGet(table, c.pks).exc), lookup |-> MultiGet(table, c.pks).exc]}
    ELSE {ModelFieldAnswer(got) : got \in GetByList}

\* the classes of fields that ask the model collaborator
ModelFieldClasses == {"ModelField", "PrimaryKeyField", "ModelMultiPrimaryKeyField"}

\* field.to_internal_value(input) for the field of c: the answers it may give
ConvToInternal(c, table) ==
    CASE c.field.cls = "DateField" ->
            {[out |-> DateFieldToInternal(c.field, c.input), lookup |-> ""]}
      [] c.field.cls = "DateTimeField" ->
            {[out |-> DateTimeFieldToInternal(c.field, c.input), lookup |-> ""]}
      [] c.field.cls = "JSONField" ->
            {[out |-> JSONFieldToInternal(c.field, c.input), lookup |-> ""]}
      [] c.field.cls \in {"ModelField", "PrimaryKeyField"} ->
            {ModelFieldAnswer(OrmGet(table, c.lookup_field, c.input))}
      [] c.field.cls = "ModelMultiPrimaryKeyField" -> MultiFieldAnswers(c, table)
      [] OTHER -> {[out |-> FieldToInternal(<<c.field>>, 1, c.input, table), lookup |-> ""]}

\* json.loads(attr)
JsonLoads(attr) ==
    CASE attr.t = "jsonstr" -> Ok(JsonObjV(attr.n))
      [] attr.t \in {"str", "uuidstr", "datestr", "datetimestr"} -> Crash("JSONDecodeError")
      [] OTHER -> Crash("TypeError")

\* attr.isoformat()
IsoFormat(attr) ==
    CASE attr.t = "date" -> Ok(DateStrV(attr.n))
      [] attr.t = "datetime" -> Ok(DateTimeStrV(attr.n))
      [] OTHER -> Crash("AttributeError")

\* ModelField.to_representation(attr) for a model instance: attr.pk, unless the
\* collaborator's instances are Iterable (then the items have no pk)
ModelFieldToRepresentation(attr) ==
    IF attr.t = "instance" THEN {Ok(IntV(attr.n)), Crash("AttributeError")}
    ELSE {Crash("AttributeError")}

\* field.to_representation(attr) for the field of c: the answers it may give
ConvToRepresentation(c, attr) ==
    CASE c.field.cls \in {"DateField", "DateTimeField"} -> {IsoFormat(attr)}
      [] c.field.cls = "JSONField" -> {JsonLoads(attr)}
      [] c.field.cls \in {"ModelField", "PrimaryKeyField"} -> ModelFieldToRepresentation(attr)
      [] c.field.cls = "ModelMultiPrimaryKeyField" ->
            \* `for instance in instances` over one instance
            {Crash("TypeError"), Crash("AttributeError")}
      [] OTHER -> {FieldToRepresentation(c.field, attr)}

\* nothing returned yet
NoOutcome == [kind |-> "none", val |-> NoneV, msg |-> ""]

\* conv once to_internal_value has answered r
Converted(c, r) ==
    [c EXCEPT !.pc = IF r.out.kind = "ok" THEN "internal" ELSE "raised",
              !.out = r.out, !.lookup = r.lookup]

\* await field.to_internal_value(input)
field_to_internal_value ==
    /\ conv.pc = "new"
    /\ \E r \in ConvToInternal(conv, db) : conv' = Converted(conv, r)
    /\ UNCHANGED <<heap, declared, meta, db, ser, co, view, hist, lst, orm>>

\* await field.to_representation(value) on what to_internal_value returned
field_to_representation ==
    /\ conv.pc = "internal"
    /\ \E r \in ConvToRepresentation(conv, conv.out.val) :
           conv' = [conv EXCEPT !.pc = "represented", !.rep = r]
    /\ UNCHANGED <<heap, declared, meta, db, ser, co, view, hist, lst, orm>>

NextField ==
    \/ field_to_internal_value
    \/ field_to_representation

\* the python_type each Field subclass sets in __init__
PythonTypeOf(cls) ==
    CASE cls = "CharField" -> "str"
      [] cls = "IntegerField" -> "int"
      [] cls = "BooleanField" -> "bool"
      [] cls = "UUIDField" -> "uuid"
      [] cls = "DateField" -> "date"
      [] cls = "DateTimeField" -> "datetime"
      [] cls = "JSONField" -> "dict"
      [] OTHER -> "model"

\* a field about to convert `input` (pks: the elements when input is a list)
NewConv(cls, lookup_field, input, pks) ==
    [pc |-> "new", field |-> Field(cls, "f", PythonTypeOf(cls), FALSE, <<>>),
     lookup_field |-> lookup_field, input |-> input, pks |-> pks,
     out |-> NoOutcome, lookup |-> "", rep |-> NoOutcome]

\* the wire values that match the declared type of a field of class cls
ValidWire(cls) ==
    CASE cls = "CharField" -> {StrV(1), StrV(TitleMinLen + 1)}
      [] cls = "IntegerField" -> {IntV(1), IntV(2)}
      [] cls = "BooleanField" -> {BoolV(TRUE), BoolV(FALSE)}
      [] cls = "UUIDField" -> {UuidStrV(1), UuidStrV(2)}
      [] cls = "DateField" -> {DateStrV(1), DateStrV(2)}
      [] cls = "DateTimeField" -> {DateTimeStrV(1), DateTimeStrV(2)}
      [] cls = "JSONField" -> {JsonObjV(1), JsonObjV(2)}
      [] OTHER -> {}

\* wire values of another type
OtherWire == {NoneV, IntV(7), StrV(3), JsonObjV(0)}

\* the values a lookup under `name` is asked for
LookupValues(name) ==
    CASE name \in {"pk", "id"} -> {IntV(pk) : pk \in 1..MaxPk}
      [] name = "uid" -> {UuidStrV(1), UuidStrV(2), UuidStrV(3)}
      [] name = "title" -> {StrV(TitleMinLen), StrV(TitleMinLen + 1)}
      [] OTHER -> {IntV(1), StrV(TitleMinLen)}

\* the tables the lookups run against: one row, or two rows of one title
ConvTables ==
    {InitDb,
     Append(InitDb, [title |-> StrV(TitleMinLen), enabled |-> BoolV(FALSE), uid |-> UuidV(2)])}

ScalarConvs ==
    {NewConv(cls, "", input, <<>>) :
        cls \in {"CharField", "IntegerField", "BooleanField", "UUIDField",
                 "DateField", "DateTimeField", "JSONField"},
        input \in UNION {ValidWire(c) : c \in {"CharField", "IntegerField", "BooleanField",
                                               "UUIDField", "DateField", "DateTimeField",
                                               "JSONField"}} \cup OtherWire}

\* the same conversions on fields constructed with required= and nullable=
FlaggedConvs ==
    {[c EXCEPT !.field.required = r, !.field.nullable = n] :
        c \in ScalarConvs, r \in BOOLEAN, n \in BOOLEAN}

ModelConvs ==
    UNION {{NewConv("ModelField", name, v, <<>>) : v \in LookupValues(name)} :
              name \in {"pk", "id", "uid", "title", "slug"}}
    \cup {NewConv("PrimaryKeyField", "pk", v, <<>>) : v \in LookupValues("pk")}
    \cup {NewConv("ModelMultiPrimaryKeyField", "id", ListV(Len(pks)), pks) :
              pks \in SeqsUpTo(1..MaxPk, MaxItems)}

InitField ==
    /\ heap = TemplateHeap
    /\ declared = TemplateDeclared
    /\ meta = MetaOk
    /\ db \in ConvTables
    /\ ser = <<>> /\ co = <<>> /\ view = <<>> /\ hist = <<>>
    /\ lst = Unused /\ orm = Unused
    /\ conv \in FlaggedConvs \cup ModelConvs

SpecField == InitField /\ [][NextField]_vars

(***************************************************************************)
(* Properties of field conversions *)
(***************************************************************************)

\* to_internal_value of a model field has ended after the collaborator's lookup
\* failed with not-found or with bad-lookup-field
LookupFailed ==
    /\ conv.pc \in {"internal", "raised", "represented"}
    /\ conv.field.cls \in ModelFieldClasses
    /\ conv.lookup \in {"DoesNotExist", "FieldError"}

\* C14 (as stated): for Model, Primary-Key and Multi-Primary-Key fields a lookup
\* that fails with not-found or bad-lookup-field makes to_internal_value raise
\* ValidationError; no storage exception escapes
C14_LookupFailureIsValidationError ==
    LookupFailed => conv.out.kind = "verr"

\* the field of conv was given a wire value that matches its declared type
ValidInput == conv.input \in ValidWire(conv.field.cls)

\* C15 (as stated): for every field type and valid wire input, to_internal_value
\* succeeds and to_representation of its result is the input again
C15_RoundTrip ==
    conv.pc # "unused" /\ ValidInput =>
        /\ conv.pc # "new" => conv.out.kind = "ok"
        /\ conv.pc = "represented" => conv.rep = Ok(conv.input)

-----------------------------------------------------------------------------
(* ModelSerializer.create and ModelSerializer.update against a model with   *)
(* many-to-many relations: the calls made on the model collaborator        *)

\* a validated value: a scalar, or the list of instances of a relation
ScalarV(t, n) == [t |-> t, n |-> n, items |-> <<>>]
RelationV(items) == [t |-> "list", n |-> Len(items), items |-> items]
NoV == ScalarV("none", 0)

\* a call made on the model class, on the instance or on one of its relations
Event(ev, name, val) == [ev |-> ev, name |-> name, val |-> val]

\* the loop over model_info['m2m_fields'] at the head of create: the names popped
\* and their values, in the order of the schema
RECURSIVE Extracted(_, _)
Extracted(m2m, validated_data) ==
    IF m2m = <<>> THEN <<>>
    ELSE (IF Has(validated_data, Head(m2m))
          THEN <<[k |-> Head(m2m), v |-> Get(validated_data, Head(m2m))]>>
          ELSE <<>>) \o Extracted(Tail(m2m), validated_data)

\* fault: the relation values are read but left in validated_data
Remainder_Unpopped(many_to_many, validated_data) == validated_data

\* validated_data after the pops
Remainder(many_to_many, validated_data) ==
    SelectSeq(validated_data, LAMBDA e : ~Has(many_to_many, e.k))

\* hasattr(instance, field_name) for a relation the model's schema describes
InstanceHasAttr(m2m, name) == name \in SeqToSet(m2m)

\* field.clear(), then field.add(item) for each item of value
Repopulate(name, value) ==
    <<Event("clear", name, NoV)>>
    \o [j \in 1..Len(value.items) |-> Event("add", name, ScalarV("instance", value.items[j]))]

\* the loop over many_to_many.items() at the end of create
RECURSIVE RelationCalls(_, _)
RelationCalls(m2m, many_to_many) ==
    IF many_to_many = <<>> THEN <<>>
    ELSE (IF InstanceHasAttr(m2m, Head(many_to_many).k)
          THEN Repopulate(Head(many_to_many).k, Head(many_to_many).v)
          ELSE <<>>) \o RelationCalls(m2m, Tail(many_to_many))

\* fault: every validated field is assigned as an attribute
IsRelation_Never(m2m, name) == FALSE

\* `field_name in m2m_fields`
IsRelation(m2m, name) == name \in SeqToSet(m2m)

\* the loop over validated_data.items() in update
RECURSIVE UpdateCalls(_, _)
UpdateCalls(m2m, validated_data) ==
    IF validated_data = <<>> THEN <<>>
    ELSE (IF IsRelation(m2m, Head(validated_data).k)
          THEN (IF InstanceHasAttr(m2m, Head(validated_data).k)
                THEN Repopulate(Head(validated_data).k, Head(validated_data).v)
                ELSE <<>>)
          ELSE <<Event("setattr", Head(validated_data).k, Head(validated_data).v)>>)
         \o UpdateCalls(m2m, Tail(validated_data))

\* create as far as `await model_class.create(**validated_data)`
CreateCalled(o, many_to_many, remainder) ==
    [o EXCEPT !.pc = "create_awaited", !.many_to_many = many_to_many,
              !.validated_data = remainder,
              !.trace = <<Event("create", "", NoV)>>, !.kwargs = remainder]

create_call ==
    /\ orm.pc = "new" /\ orm.op = "create"
    /\ orm' = CreateCalled(orm, Extracted(orm.m2m, orm.validated_data),
                           Remainder(Extracted(orm.m2m, orm.validated_data),
                                     orm.validated_data))
    /\ UNCHANGED <<heap, declared, meta, db, ser, co, view, hist, lst, conv>>

\* what the awaited model_class.create may do: return the new instance or raise
CreateAnswers == {"instance", "TypeError", "IntegrityError", "OperationalError"}

\* the primary key of a created instance
NewPk == 9

\* create from the return of model_class.create to its own end
CreateReturned(o, answer) ==
    CASE answer = "instance" ->
            [o EXCEPT !.pc = "done", !.answer = answer, !.res = "instance", !.ret = NewPk,
                      !.trace = @ \o RelationCalls(o.m2m, o.many_to_many)]
      [] answer = "TypeError" ->
            \* raise TypeError(msg): msg names the model class and the serializer class
            [o EXCEPT !.pc = "done", !.answer = answer, !.res = "TypeError",
                      !.descriptive = TRUE]
      [] OTHER ->
            [o EXCEPT !.pc = "done", !.answer = answer, !.res = answer]

create_return ==
    /\ orm.pc = "create_awaited"
    /\ \E answer \in CreateAnswers : orm' = CreateReturned(orm, answer)
    /\ UNCHANGED <<heap, declared, meta, db, ser, co, view, hist, lst, conv>>

\* update as far as `await instance.save()`
update_call ==
    /\ orm.pc = "new" /\ orm.op = "update"
    /\ orm' = [orm EXCEPT !.pc = "save_awaited",
                          !.trace = UpdateCalls(orm.m2m, orm.validated_data)
                                    \o <<Event("save", "", NoV)>>]
    /\ UNCHANGED <<heap, declared, meta, db, ser, co, view, hist, lst, conv>>

\* what the awaited instance.save may do
SaveAnswers == {"saved", "IntegrityError", "OperationalError"}

\* update from the return of instance.save to its own end
UpdateReturned(o, answer) ==
    IF answer = "saved"
    THEN [o EXCEPT !.pc = "done", !.answer = answer, !.res = "instance", !.ret = o.instance]
    ELSE [o EXCEPT !.pc = "done", !.answer = answer, !.res = answer]

update_return ==
    /\ orm.pc = "save_awaited"
    /\ \E answer \in SaveAnswers : orm' = UpdateReturned(orm, answer)
    /\ UNCHANGED <<heap, declared, meta, db, ser, co, view, hist, lst, conv>>

NextOrm ==
    \/ create_call
    \/ create_return
    \/ update_call
    \/ update_return

\* model_info['m2m_fields'] of the models the serializer is declared over
RelationSchemas == {<<>>, <<"tags">>, <<"tags", "groups">>}

\* the entries validated_data may hold, each present or not
ValidatedEntries ==
    {<<>>, <<[k |-> "title", v |-> ScalarV("str", TitleMinLen)]>>}
    \X ({<<>>} \cup {<<[k |-> "tags", v |-> RelationV(q)]>> : q \in SeqsUpTo(1..MaxPk, MaxItems)})
    \X {<<>>, <<[k |-> "groups", v |-> RelationV(<<>>)]>>,
        <<[k |-> "groups", v |-> RelationV(<<MaxPk>>)]>>}

\* validated_data: the entries in the order of the serializer's registry, two orders
ValidatedDicts ==
    {e[1] \o e[2] \o e[3] : e \in ValidatedEntries}
    \cup {e[3] \o e[2] \o e[1] : e \in ValidatedEntries}

\* create(validated_data) or update(instance, validated_data) about to be awaited
NewOrm(op, m2m, validated_data, instance) ==
    [pc |-> "new", op |-> op, m2m |-> m2m, given |-> validated_data,
     validated_data |-> validated_data, instance |-> instance,
     many_to_many |-> <<>>, kwargs |-> <<>>, trace |-> <<>>,
     answer |-> "", res |-> "", descriptive |-> FALSE, ret |-> 0]

InitOrm ==
    /\ heap = TemplateHeap
    /\ declared = TemplateDeclared
    /\ meta = MetaOk
    /\ db = InitDb
    /\ ser = <<>> /\ co = <<>> /\ view = <<>> /\ hist = <<>>
    /\ lst = Unused /\ conv = Unused
    /\ orm \in {NewOrm(op, m2m, vd, IF op = "update" THEN 1 ELSE 0) :
                    op \in {"create", "update"}, m2m \in RelationSchemas,
                    vd \in ValidatedDicts}

SpecOrm == InitOrm /\ [][NextOrm]_vars

(***************************************************************************)
(* Properties of create and update *)
(***************************************************************************)

\* the calls of the trace made on the relation or attribute `name`
CallsOn(name) == SelectSeq(orm.trace, LAMBDA e : e.name = name)

\* the calls of the trace of one kind
CallsOf(ev) == SelectSeq(orm.trace, LAMBDA e : e.ev = ev)

\* the calls on `name` are one clear, then one add per item of value, in order
ClearedThenAdded(name, value) ==
    /\ Len(CallsOn(name)) = 1 + Len(value.items)
    /\ CallsOn(name)[1].ev = "clear"
    /\ \A k \in 1..Len(value.items) :
           /\ CallsOn(name)[k + 1].ev = "add"
           /\ CallsOn(name)[k + 1].val = ScalarV("instance", value.items[k])

\* the relations of the schema that validated_data gave a value for
GivenRelations == {j \in 1..Len(orm.given) : orm.given[j].k \in SeqToSet(orm.m2m)}

\* create has called model_class.create
CreateBegun == orm.op = "create" /\ orm.pc \in {"create_awaited", "done"}

\* the ordered steps of create: the relation names are out of the data before
\* model_class.create is called, which gets the scalar remainder; a relation is
\* cleared only after create returned an instance, then populated in order;
\* nothing is cleared or populated when create raised
CreateOrdering ==
    CreateBegun =>
        /\ orm.kwargs = SelectSeq(orm.given, LAMBDA e : e.k \notin SeqToSet(orm.m2m))
        /\ \A j \in 1..Len(orm.kwargs) : orm.kwargs[j].k \notin SeqToSet(orm.m2m)
        /\ Len(CallsOf("create")) = 1 /\ Head(orm.trace).ev = "create"
        /\ orm.pc = "create_awaited" \/ orm.answer # "instance" =>
               CallsOf("clear") = <<>> /\ CallsOf("add") = <<>>
        /\ orm.pc = "done" /\ orm.answer = "instance" =>
               /\ \A j \in GivenRelations :
                      ClearedThenAdded(orm.given[j].k, orm.given[j].v)
               /\ Len(CallsOf("clear")) = Cardinality(GivenRelations)

\* create has ended because model_class.create raised
CreateFailed == CreateBegun /\ orm.pc = "done" /\ orm.answer # "instance"

UpdateBegun == orm.op = "update" /\ orm.pc \in {"save_awaited", "done"}

\* C17: update handles each validated field once, a many-to-many name by clear
\* then one add per value, any other name by one attribute assignment; save is
\* called once, after all of them, and the instance given is the one returned
C17_UpdateRoutes ==
    UpdateBegun =>
        /\ \A j \in 1..Len(orm.given) :
               IF orm.given[j].k \in SeqToSet(orm.m2m)
               THEN ClearedThenAdded(orm.given[j].k, orm.given[j].v)
               ELSE CallsOn(orm.given[j].k) =
                        <<Event("setattr", orm.given[j].k, orm.given[j].v)>>
        /\ Len(CallsOf("save")) = 1
        /\ orm.trace[Len(orm.trace)].ev = "save"
        /\ \A j \in 1..Len(orm.trace) - 1 : orm.trace[j].name \in Keys(orm.given)
        /\ orm.pc = "done" /\ orm.answer = "saved" =>
               orm.res = "instance" /\ orm.ret = orm.instance

\* update has ended on data with a scalar and a relation of two items
C17_Witness ==
    /\ UpdateBegun /\ orm.pc = "done" /\ orm.answer = "saved"
    /\ Len(CallsOf("setattr")) = 1
    /\ \E j \in GivenRelations : Len(orm.given[j].v.items) = 2
    /\ Len(CallsOf("add")) >= 2

(***************************************************************************)
(* Properties of the validation loop and of save *)
(***************************************************************************)

\* the names of the registry of serializer i whose field is not read-only, in
\* the order of the registry
WritableNames(i) ==
    SelectSeq(KeySeq(ser[i].fields),
              LAMBDA n : ~heap[Get(ser[i].fields, n)].read_only)

\* the sequence a is b with some elements left out
RECURSIVE IsSubSeq(_, _)
IsSubSeq(a, b) ==
    IF a = <<>> THEN TRUE
    ELSE IF b = <<>> THEN FALSE
    ELSE IF Head(a) = Head(b) THEN IsSubSeq(Tail(a), Tail(b))
    ELSE IsSubSeq(a, Tail(b))

\* C21: the keys of validated_data and of errors, stored or still being
\* accumulated, are names of non-read-only fields of the registry and appear in
\* the registry's declaration order
C21_WritableInOrder ==
    \A i \in DOMAIN ser :
        /\ ser[i].has_validated_data =>
               IsSubSeq(KeySeq(ser[i].validated_data), WritableNames(i))
        /\ ser[i].has_errors => IsSubSeq(KeySeq(ser[i].errors), WritableNames(i))
        /\ co[i].pc = "to_internal_value" =>
               /\ IsSubSeq(KeySeq(co[i].acc.validated), WritableNames(i))
               /\ IsSubSeq(KeySeq(co[i].acc.errors), WritableNames(i))

\* is_valid() has answered with two errors and a validated value, on a registry
\* that also holds a read-only field
C21_Witness ==
    \E i \in DOMAIN ser :
        /\ Answered(i)
        /\ Len(ser[i].errors) >= 2
        /\ hist[i].returned # <<>>
        /\ Len(WritableNames(i)) < Len(ser[i].fields)

\* the field classes whose to_internal_value is Field.validate on the raw value
ValidatingClasses == {"IntegerField", "BooleanField", "CharField"}

\* validate(input) has ended on a field of one of those classes
Validated == conv.pc \in {"internal", "raised", "represented"}
             /\ conv.field.cls \in ValidatingClasses

\* C22 (as stated): validate fails with ValidationError for every non-null value
\* that is not an instance of the declared type, and for null exactly when the
\* field is required and not nullable
C22_ValidateChecks ==
    Validated =>
        /\ conv.input.t = "none" =>
               (conv.out.kind = "verr" <=> conv.field.required /\ ~conv.field.nullable)
        /\ conv.input.t # "none" /\ ~IsInstance(conv.input, conv.field.python_type) =>
               conv.out.kind = "verr"

\* C23 (as stated): is_valid() returns success exactly when the to_internal_value
\* run it has just performed recorded no field error; errors recorded by an
\* earlier is_valid() on the same instance do not make a later, error-free run
\* return failure
C23_ResultOfThisRun ==
    \A i \in DOMAIN ser :
        Answered(i) => (hist[i].last_valid = "True" <=> hist[i].errors = <<>>)

\* C24 (as stated): a save() that fails, because the create or update hook raises
\* or returns null, leaves the serializer's bound instance as it was before the
\* call, so a later save() is routed to the same hook
C24_FailedSaveKeepsInstance ==
    \A i \in DOMAIN ser :
        hist[i].op = "save" /\ hist[i].hook_ret \in {"null", "raise"} =>
            /\ ser[i].instance = hist[i].bound_at_call
            /\ HooksFor(ser[i]) = hist[i].hooks

\* C26 (as stated): save() on a ModelSerializer leaves validated_data unchanged;
\* after create or update returns, validated_data holds the keys and values it
\* held when is_valid() succeeded, the many-to-many entries included
C26_SaveKeepsValidatedData ==
    orm.pc = "done" /\ orm.res = "instance" => orm.validated_data = orm.given

(***************************************************************************)
(* Properties of list validation *)
(***************************************************************************)

\* an element of the list serializer's input is invalid: the child, validating
\* that mapping's values, records a field error
InvalidElement ==
    \E k \in 1..Len(lst.obj.attrs.initial_data.list) :
        OnItsOwn(lst.obj.child.attrs, lst.obj.attrs.initial_data.list[k]).errors # <<>>

\* C25 (as stated): a ListSerializer built with many=True over raw input does not
\* report success when an element is invalid; is_valid() on it returns failure and
\* save() on it is refused
C25_InvalidElementFails ==
    ListValidated /\ lst.call.cls = "Declared" /\ InvalidElement =>
        /\ lst.res = "False"
        /\ ~SavePrecondition(lst.obj.attrs)

====
